---- MODULE Spec2Model ----
(***************************************************************************)
(* A model of the Express REST API of the repository (express/): the JSON  *)
(* file database layer (utils/database.js), the validator middleware       *)
(* (utils/validator.js) and the route handlers for users, products and     *)
(* orders; and of the React page (card/): the Card component, the search   *)
(* input of App and shuffleArray.                                          *)
(*                                                                         *)
(* Conventions.                                                            *)
(*  - A JavaScript object is a function from field names to values; a      *)
(*    field that is undefined is absent from the DOMAIN.                   *)
(*  - A JavaScript string that the code inspects (a path parameter, an     *)
(*    email) is a tuple of one-character strings, so parsing is computed.  *)
(*  - A value that may be null (a find result, NaN from a parse) is a      *)
(*    tuple of length 0 or 1.                                              *)
(*  - new Date().toISOString() is an instant drawn from Times at each      *)
(*    call: the wall clock is an input and need not be monotone.           *)
(***************************************************************************)
EXTENDS Integers, Sequences, FiniteSets, TLC

VARIABLES
  files,        \* filename -> the array stored in db/<filename>
  req,          \* the last request (or database call) handled
  res,          \* the response (or return value) it was given
  issued,       \* filename -> the ids create has returned for that file
  pipeline,     \* how far the request in flight has come through its middleware
  io,           \* whether fs reads and fs writes fail at present
  servers,      \* server process -> its requests, its handler's position, its answers
  cards,        \* card id -> the state of the Card component of that person
  localStorage, \* the item stored under LIKE_KEY: <<>> for null, or <<text>>
  event,        \* the last event the page handled
  app,          \* the state of the App component and its debounce timer
  shuffle       \* the call of shuffleArray in progress

\* the state of the server processes and of the page in the browser
server == <<files, req, res, issued, pipeline, io, servers>>
browser == <<cards, localStorage, event, app, shuffle>>

vars == <<files, req, res, issued, pipeline, io, servers,
          cards, localStorage, event, app, shuffle>>

--------------------------------------------------------------------------
(* Bounds of the model *)

\* the largest id create hands out, and the most records a file holds
MaxId == 2

--------------------------------------------------------------------------
(* JavaScript helpers *)

FILES == {"users.json", "products.json", "orders.json", "data.json"}

Digits == {"0", "1", "2", "3", "4", "5", "6", "7", "8", "9"}

DigitVal(c) ==
  CASE c = "0" -> 0 [] c = "1" -> 1 [] c = "2" -> 2 [] c = "3" -> 3
    [] c = "4" -> 4 [] c = "5" -> 5 [] c = "6" -> 6 [] c = "7" -> 7
    [] c = "8" -> 8 [] c = "9" -> 9

\* the longest prefix of s made of digits
RECURSIVE DigitPrefix(_)
DigitPrefix(s) ==
  IF s = <<>> \/ Head(s) \notin Digits THEN <<>>
  ELSE <<Head(s)>> \o DigitPrefix(Tail(s))

\* the number a non-empty tuple of digits denotes
RECURSIVE DigitsValue(_)
DigitsValue(ds) ==
  IF Len(ds) = 1 THEN DigitVal(ds[1])
  ELSE 10 * DigitsValue(SubSeq(ds, 1, Len(ds) - 1)) + DigitVal(ds[Len(ds)])

HasSign(s) == s # <<>> /\ Head(s) \in {"-", "+"}

Unsigned(s) == IF HasSign(s) THEN Tail(s) ELSE s

\* parseInt(s) of a string: an optional sign and the longest run of digits;
\* <<>> is NaN.  (Leading white space and the 0x prefix are not modelled.)
parseInt(s) ==
  LET ds == DigitPrefix(Unsigned(s))
  IN  IF ds = <<>> THEN <<>>
      ELSE IF Head(s) = "-" THEN << -DigitsValue(ds) >> ELSE << DigitsValue(ds) >>

\* isNaN(s) of a string, i.e. Number(s) is NaN: Number accepts an optional
\* sign, digits and an optional fraction, but no other trailing character.
\* (Exponents, white space and Infinity are not modelled.)
isNaN(s) ==
  LET u    == Unsigned(s)
      ip   == DigitPrefix(u)
      rest == SubSeq(u, Len(ip) + 1, Len(u))
      fp   == IF rest # <<>> /\ Head(rest) = "." THEN DigitPrefix(Tail(rest)) ELSE <<>>
      numeric ==
        \/ u = <<>> /\ ~HasSign(s)
        \/ ip # <<>> /\ rest = <<>>
        \/ rest # <<>> /\ Head(rest) = "." /\ Len(rest) = Len(fp) + 1
           /\ (ip # <<>> \/ fp # <<>>)
  IN  ~numeric

\* { ...a, ...b }: the fields of both objects, b's value where both have one
Spread(a, b) ==
  [k \in DOMAIN a \cup DOMAIN b |-> IF k \in DOMAIN b THEN b[k] ELSE a[k]]

\* x || 0 of a number: 0 is the only falsy number a stored id can be
OrZero(x) == IF x = 0 THEN 0 ELSE x

\* Math.max(...xs) of a non-empty array of numbers
Max(xs) == CHOOSE m \in {xs[i] : i \in 1..Len(xs)} : \A i \in 1..Len(xs) : xs[i] <= m

--------------------------------------------------------------------------
(* utils/database.js *)

\* readFile: the array in the file, or [] when reading or parsing throws
readFile(filename) == IF io.readFails THEN <<>> ELSE files[filename]

\* writeFile: the files after fs.writeFileSync, which are the files as they
\* were when it throws (writeFile then returns false, which no caller reads)
writeFile(filename, data) ==
  IF io.writeFails THEN files ELSE [files EXCEPT ![filename] = data]

\* item.id === parseInt(id)
IdIs(item, id) == parseInt(id) = <<item.id>>

\* data.findIndex(item => item.id === parseInt(id)): the position of the
\* first record with that id, 0 when there is none (findIndex answers -1)
FindIndexById(data, id) ==
  IF \E i \in 1..Len(data) : IdIs(data[i], id)
  THEN CHOOSE i \in 1..Len(data) :
         IdIs(data[i], id) /\ \A j \in 1..(i - 1) : ~IdIs(data[j], id)
  ELSE 0

\* a variant of getById that gives the first record of the file when no
\* record has the id
getById_OrFirst(filename, id) ==
  LET data  == readFile(filename)
      index == FindIndexById(data, id)
  IN  IF data = <<>> THEN <<>>
      ELSE IF index = 0 THEN <<data[1]>> ELSE <<data[index]>>

\* getById: the first record with that id, as <<record>>, or <<>> for null
getById(filename, id) ==
  LET data  == readFile(filename)
      index == FindIndexById(data, id)
  IN  IF index = 0 THEN <<>> ELSE <<data[index]>>

\* the id create chooses: 1 for an empty file, else max(item.id || 0) + 1
NextId(data) ==
  IF Len(data) > 0
  THEN Max([i \in 1..Len(data) |-> OrZero(data[i].id)]) + 1
  ELSE 1

\* the record create builds: { id, ...newRecord, createdAt, updatedAt }
NewRecord(data, newRecord, now1, now2) ==
  Spread(Spread([id |-> NextId(data)], newRecord),
         [createdAt |-> now1, updatedAt |-> now2])

\* create: the array written to the file, and the record returned
create(filename, newRecord, now1, now2) ==
  LET data   == readFile(filename)
      record == NewRecord(data, newRecord, now1, now2)
  IN  [data |-> Append(data, record), record |-> record]

\* a variant of Merged that lets updateData overwrite id and createdAt
Merged_NoPreserve(old, updateData, now) ==
  Spread(Spread(old, updateData), [updatedAt |-> now])

\* the object update stores at data[index]
Merged(old, updateData, now) ==
  Spread(Spread(old, updateData),
         [id |-> old.id, createdAt |-> old.createdAt, updatedAt |-> now])

\* update: the array written (or the file as it is when nothing is written)
\* and the record returned, <<>> for null
update(filename, id, updateData, now) ==
  LET data  == readFile(filename)
      index == FindIndexById(data, id)
  IN  IF index = 0 THEN [data |-> data, record |-> <<>>, written |-> FALSE]
      ELSE LET new == Merged(data[index], updateData, now)
           IN  [data    |-> [data EXCEPT ![index] = new],
                record  |-> <<new>>,
                written |-> TRUE]

\* a variant of deleteRecord that removes only the first record with the id
deleteRecord_FirstOnly(filename, id) ==
  LET data  == readFile(filename)
      index == FindIndexById(data, id)
  IN  IF index = 0 THEN [data |-> data, deleted |-> FALSE]
      ELSE [data    |-> SubSeq(data, 1, index - 1)
                          \o SubSeq(data, index + 1, Len(data)),
            deleted |-> TRUE]

\* deleteRecord: the array written and the boolean returned
deleteRecord(filename, id) ==
  LET data         == readFile(filename)
      filteredData == SelectSeq(data, LAMBDA item : ~IdIs(item, id))
  IN  IF Len(filteredData) = Len(data)
      THEN [data |-> data, deleted |-> FALSE]
      ELSE [data |-> filteredData, deleted |-> TRUE]

--------------------------------------------------------------------------
(* State *)

\* the instants new Date() may return
Times == {1, 2}

NoRequest == [op |-> "none", id |-> <<>>, body |-> <<>>]
\* code: the HTTP status (0 for a direct database call); data: what is
\* returned; wrote: whether writeFile was called
NoResponse == [code |-> 0, data |-> <<>>, wrote |-> FALSE]

Response(code, data, wrote) == [code |-> code, data |-> data, wrote |-> wrote]

\* next: the middleware or handler part that runs next ("idle" when no
\* request is in flight); ran: the parts that ran for the request, in
\* order; sent: the number of responses sent for it
NoPipeline == [next |-> "idle", ran |-> <<>>, sent |-> 0]

\* no read or write fails
NoFault == [readFails |-> FALSE, writeFails |-> FALSE]

\* no server process is modelled on its own (the handlers then run as the
\* single steps of one process)
NoServers == <<>>

\* the ids of the cards on the page: person.email, or first name - last name
CardIds == {"ann@x.org", "Bob-Ray"}

\* a Card that is not mounted.  rendered: the value of liked in the last
\* render, which the effects of that render see; effects: the effects that
\* render left to run, in order; found: whether the load effect of this
\* mount found the entry of the card in localStorage; touched: whether Like
\* was clicked since the card was mounted
Unmounted ==
  [mounted |-> FALSE, flipped |-> FALSE, liked |-> FALSE, rendered |-> FALSE,
   effects |-> <<>>, found |-> FALSE, touched |-> FALSE]

NoEvent == [kind |-> "none", card |-> "", key |-> ""]

\* the App before its first effect ran.  timer: <<>> or the pending timeout
\* <<[term, left]>>, with the value of searchTerm it will set and the time
\* left, in units of 100 ms; quiet: the time since searchTerm last changed;
\* changes: the number of changes of searchTerm so far
NoApp == [searchTerm |-> "", query |-> "", timer |-> <<>>, quiet |-> 0, changes |-> 0]

\* no call of shuffleArray in progress
NoShuffle == [pc |-> "idle", arr |-> <<>>, a |-> <<>>, i |-> 0]

\* the page is not open in the browser
PageClosed ==
  /\ cards = [id \in CardIds |-> Unmounted]
  /\ localStorage = <<>>
  /\ event = NoEvent
  /\ app = NoApp
  /\ shuffle = NoShuffle

\* one server process whose handlers are single steps, and no fault
PlainServer ==
  /\ io = NoFault
  /\ servers = NoServers

Init ==
  /\ files = [f \in FILES |-> <<>>]
  /\ req = NoRequest
  /\ res = NoResponse
  /\ issued = [f \in FILES |-> {}]
  /\ pipeline = NoPipeline
  /\ PlainServer
  /\ PageClosed

\* id: the id parameter, <<>> when there is none; body: <<object>>, or <<>>
\* when the request carries none
Request(op, id, body) == [op |-> op, id |-> id, body |-> body]

--------------------------------------------------------------------------
(* Direct calls of the database layer on data.json *)

DbFile == "data.json"

\* ids passed to update and deleteRecord
DbIds == {<<"1">>, <<"2">>, <<"3">>, <<"a">>}

\* objects passed to create
DbNewRecords == {[a |-> 0], [a |-> 0, id |-> 1]}

\* objects passed to update
DbUpdateData ==
  { [a |-> 1],
    [id |-> 2, createdAt |-> 0, updatedAt |-> 0],
    [a |-> 1, id |-> 2, createdAt |-> 0, updatedAt |-> 0] }

DbCreate(newRecord, now1, now2) ==
  LET r == create(DbFile, newRecord, now1, now2)
  IN  /\ Len(readFile(DbFile)) < MaxId
      /\ r.record.id <= MaxId
      /\ files' = writeFile(DbFile, r.data)
      /\ req' = Request("create", <<>>, <<newRecord>>)
      /\ res' = Response(0, <<r.record>>, TRUE)
      /\ issued' = [issued EXCEPT ![DbFile] = @ \cup {r.record.id}]
      /\ UNCHANGED <<pipeline, io, servers, browser>>

DbUpdate(id, updateData, now) ==
  LET r == update(DbFile, id, updateData, now)
  IN  /\ files' = IF r.written THEN writeFile(DbFile, r.data) ELSE files
      /\ req' = Request("update", id, <<updateData>>)
      /\ res' = Response(0, r.record, r.written)
      /\ UNCHANGED <<issued, pipeline, io, servers, browser>>

DbDelete(id) ==
  LET r == deleteRecord(DbFile, id)
  IN  /\ files' = IF r.deleted THEN writeFile(DbFile, r.data) ELSE files
      /\ req' = Request("deleteRecord", id, <<>>)
      /\ res' = Response(0, <<r.deleted>>, r.deleted)
      /\ UNCHANGED <<issued, pipeline, io, servers, browser>>

NextDb ==
  \/ \E newRecord \in DbNewRecords, now1 \in Times, now2 \in Times :
       DbCreate(newRecord, now1, now2)
  \/ \E id \in DbIds, updateData \in DbUpdateData, now \in Times :
       DbUpdate(id, updateData, now)
  \/ \E id \in DbIds : DbDelete(id)

SpecDb == Init /\ [][NextDb]_vars

--------------------------------------------------------------------------
(* utils/validator.js *)

\* validateId lets the request through: the id parameter is a number and
\* its integer part is positive (parseInt(id) <= 0 is false for NaN)
validateId(id) ==
  ~(isNaN(id) \/ (parseInt(id) # <<>> /\ parseInt(id)[1] <= 0))

\* A field that requests fill with values of several types holds a tagged
\* value: a number, a boolean, a string, NaN, null or undefined
JsNumber(n) == [type |-> "number", num |-> n]
JsBoolean(b) == [type |-> "boolean", bool |-> b]
JsString(chars) == [type |-> "string", chars |-> chars]
JsNaN == [type |-> "NaN"]
JsNull == [type |-> "null"]
JsUndefined == [type |-> "undefined"]

\* the white space of the model's strings
Whitespace == {" ", "\t"}

\* String.prototype.trim: s without the white space at its two ends
trim(s) ==
  LET inside == { i \in 1..Len(s) : s[i] \notin Whitespace }
  IN  IF inside = {} THEN <<>>
      ELSE SubSeq(s, CHOOSE i \in inside : \A j \in inside : i <= j,
                     CHOOSE i \in inside : \A j \in inside : j <= i)

\* a variant of IsMissingValue that takes every falsy value for missing
IsMissingValue_Falsy(val) ==
  \/ val.type \in {"undefined", "null"}
  \/ val.type = "string" /\ val.chars = <<>>
  \/ val.type = "number" /\ val.num = 0
  \/ val.type = "boolean" /\ ~val.bool

\* the test of validateRequired on one value: undefined, null, or a string
\* that is empty once trimmed
IsMissingValue(val) ==
  \/ val.type \in {"undefined", "null"}
  \/ val.type = "string" /\ trim(val.chars) = <<>>

\* the missing array of validateRequired, for a body of tagged values
MissingFields(requiredFields, body) ==
  SelectSeq(requiredFields,
            LAMBDA field :
              IsMissingValue(IF field \in DOMAIN body THEN body[field]
                             ELSE JsUndefined))

\* validateRequired on the bodies of the route handlers below, whose values
\* are numbers, arrays and strings that are not blank: a field that is
\* there counts as such a value
Missing(requiredFields, body) ==
  MissingFields(requiredFields, [field \in DOMAIN body |-> JsBoolean(TRUE)])

\* validateRequired(requiredFields) as a middleware of its own: it answers
\* 400 with the missing fields, or sends nothing and calls next
ValidateRequired(requiredFields, body) ==
  LET missing == MissingFields(requiredFields, body)
  IN  /\ req' = [op |-> "validateRequired", id |-> <<>>, body |-> <<body>>,
                 fields |-> requiredFields]
      /\ res' = IF Len(missing) > 0 THEN Response(400, missing, FALSE)
                ELSE NoResponse
      /\ UNCHANGED <<files, issued, pipeline, io, servers, browser>>

\* the values a field of a body takes: null, '', ' ', 'a ', 0, 5, false
FieldValues ==
  { JsNull, JsString(<<>>), JsString(<<" ">>), JsString(<<"a", " ">>),
    JsNumber(0), JsNumber(5), JsBoolean(FALSE) }

\* the bodies validateRequired sees: each of name, email and phone is
\* absent or holds one of the values
RequiredBodies ==
  UNION { [fields -> FieldValues] : fields \in SUBSET {"name", "email", "phone"} }

\* the lists of required fields
RequiredLists == { <<"name", "email", "phone">>, <<"phone", "name">> }

NextRequired ==
  \E requiredFields \in RequiredLists, body \in RequiredBodies :
    ValidateRequired(requiredFields, body)

SpecRequired == Init /\ [][NextRequired]_vars

--------------------------------------------------------------------------
(* What a handler does with the files and the response *)

\* res.status(code).json(...) without a write
Reply(code, data) ==
  /\ res' = Response(code, data, FALSE)
  /\ UNCHANGED <<files, issued, pipeline, io, servers, browser>>

\* db.create on filename answered with 201
ReplyCreated(filename, newRecord, now1, now2) ==
  LET r == create(filename, newRecord, now1, now2)
  IN  /\ r.record.id <= MaxId
      /\ files' = writeFile(filename, r.data)
      /\ issued' = [issued EXCEPT ![filename] = @ \cup {r.record.id}]
      /\ UNCHANGED <<pipeline, io, servers, browser>>
      /\ res' = Response(201, <<r.record>>, TRUE)

\* db.update on filename answered with 200 (the handlers call it only after
\* getById found the record, and do not look at what it returns)
ReplyUpdated(filename, id, updateData, now) ==
  LET r == update(filename, id, updateData, now)
  IN  /\ files' = IF r.written THEN writeFile(filename, r.data) ELSE files
      /\ res' = Response(200, r.record, r.written)
      /\ UNCHANGED <<issued, pipeline, io, servers, browser>>

\* db.deleteRecord on filename answered with 200 and data: null
ReplyDeleted(filename, id) ==
  LET r == deleteRecord(filename, id)
  IN  /\ files' = IF r.deleted THEN writeFile(filename, r.data) ELSE files
      /\ res' = Response(200, <<>>, r.deleted)
      /\ UNCHANGED <<issued, pipeline, io, servers, browser>>

\* x is truthy, for a number
Truthy(x) == x # 0

\* parseFloat(x) of a number
parseFloat(x) == x

\* isNaN(x) of a number: the numbers of the model are integers
NumIsNaN(x) == x \notin Int

\* isNaN(v): Number(v) is NaN; Number(true) is 1 and Number(null) is 0
isNaNValue(v) == v.type = "NaN"

\* Number(v), for a v that isNaN does not hold of
NumberOf(v) ==
  CASE v.type = "number"  -> v.num
    [] v.type = "boolean" -> IF v.bool THEN 1 ELSE 0
    [] v.type = "null"    -> 0

\* parseFloat(v): it reads String(v), so only a number gives a number
parseFloatValue(v) == IF v.type = "number" THEN v ELSE JsNaN

\* what JSON.stringify, in writeFile and in res.json, makes of v
JsonValue(v) == IF v.type = "NaN" THEN JsNull ELSE v

--------------------------------------------------------------------------
(* routes/orderRoutes.js *)

OrdersFile == "orders.json"

validStatuses == <<"pending", "confirmed", "shipped", "delivered", "cancelled">>

\* String.prototype.toLowerCase on the status strings of the model
toLowerCase(s) ==
  CASE s = "SHIPPED" -> "shipped" [] s = "PENDING" -> "pending"
    [] s = "OFFICE" -> "office" [] OTHER -> s

\* validStatuses.includes(x)
IncludesStatus(x) == \E i \in 1..Len(validStatuses) : validStatuses[i] = x

\* body[field] || default
OrDefault(body, field, default) ==
  IF field \in DOMAIN body THEN body[field] ELSE default

\* a variant of PostOrder that takes the status from the body when it has one
PostOrder_StatusFromBody(body, now1, now2) ==
  /\ req' = Request("POST /api/orders", <<>>, <<body>>)
  /\ IF Missing(<<"userId", "items", "totalAmount">>, body) # <<>>
     THEN Reply(400, <<>>)
     ELSE IF Len(body.items) = 0
     THEN Reply(400, <<>>)
     ELSE IF isNaNValue(body.totalAmount) \/ NumberOf(body.totalAmount) <= 0
     THEN Reply(400, <<>>)
     ELSE ReplyCreated(OrdersFile,
            [userId          |-> body.userId,
             items           |-> body.items,
             totalAmount     |-> JsonValue(parseFloatValue(body.totalAmount)),
             status          |-> OrDefault(body, "status", "pending"),
             paymentMethod   |-> OrDefault(body, "paymentMethod", "credit-card"),
             shippingAddress |-> OrDefault(body, "shippingAddress", ""),
             notes           |-> OrDefault(body, "notes", "")],
            now1, now2)

\* POST /api/orders (userId is an integer in the bodies, which parseInt
\* leaves as it is, and items is an array)
PostOrder(body, now1, now2) ==
  /\ req' = Request("POST /api/orders", <<>>, <<body>>)
  /\ IF Missing(<<"userId", "items", "totalAmount">>, body) # <<>>
     THEN Reply(400, <<>>)
     ELSE IF Len(body.items) = 0
     THEN Reply(400, <<>>)
     ELSE IF isNaNValue(body.totalAmount) \/ NumberOf(body.totalAmount) <= 0
     THEN Reply(400, <<>>)
     ELSE ReplyCreated(OrdersFile,
            [userId          |-> body.userId,
             items           |-> body.items,
             totalAmount     |-> JsonValue(parseFloatValue(body.totalAmount)),
             status          |-> "pending",
             paymentMethod   |-> OrDefault(body, "paymentMethod", "credit-card"),
             shippingAddress |-> OrDefault(body, "shippingAddress", ""),
             notes           |-> OrDefault(body, "notes", "")],
            now1, now2)

\* PUT /api/orders/:id
PutOrder(id, body, now) ==
  LET order == getById(OrdersFile, id)
  IN  /\ req' = Request("PUT /api/orders/:id", id, <<body>>)
      /\ IF ~validateId(id) THEN Reply(400, <<>>)
         ELSE IF order = <<>> THEN Reply(404, <<>>)
         ELSE IF "userId" \in DOMAIN body /\ Truthy(body.userId)
                 /\ body.userId # order[1].userId
         THEN Reply(400, <<>>)
         ELSE ReplyUpdated(OrdersFile, id,
                IF "totalAmount" \in DOMAIN body
                THEN [body EXCEPT !.totalAmount = JsonValue(parseFloatValue(@))]
                ELSE body,
                now)

\* PATCH /api/orders/:id
PatchOrder(id, body, now) ==
  LET order == getById(OrdersFile, id)
  IN  /\ req' = Request("PATCH /api/orders/:id", id, <<body>>)
      /\ IF ~validateId(id) THEN Reply(400, <<>>)
         ELSE IF order = <<>> THEN Reply(404, <<>>)
         ELSE IF "status" \in DOMAIN body /\ body.status # ""
                 /\ ~IncludesStatus(toLowerCase(body.status))
         THEN Reply(400, <<>>)
         ELSE ReplyUpdated(OrdersFile, id, body, now)

\* DELETE /api/orders/:id
DeleteOrder(id) ==
  LET order == getById(OrdersFile, id)
  IN  /\ req' = Request("DELETE /api/orders/:id", id, <<>>)
      /\ IF ~validateId(id) THEN Reply(400, <<>>)
         ELSE IF order = <<>> THEN Reply(404, <<>>)
         ELSE ReplyDeleted(OrdersFile, id)

\* a variant of CancelOrder without the status check: it cancels any order
CancelOrder_AnyStatus(id, now) ==
  LET order == getById(OrdersFile, id)
  IN  /\ req' = Request("POST /api/orders/:id/cancel", id, <<>>)
      /\ IF ~validateId(id) THEN Reply(400, <<>>)
         ELSE IF order = <<>> THEN Reply(404, <<>>)
         ELSE ReplyUpdated(OrdersFile, id, [status |-> "cancelled"], now)

\* POST /api/orders/:id/cancel
CancelOrder(id, now) ==
  LET order == getById(OrdersFile, id)
  IN  /\ req' = Request("POST /api/orders/:id/cancel", id, <<>>)
      /\ IF ~validateId(id) THEN Reply(400, <<>>)
         ELSE IF order = <<>> THEN Reply(404, <<>>)
         ELSE IF order[1].status # "pending" THEN Reply(400, <<>>)
         ELSE ReplyUpdated(OrdersFile, id, [status |-> "cancelled"], now)

\* the id parameters of the requests: ids of orders, an id no order has,
\* and ids validateId rejects
OrderIds == {<<"1">>, <<"2">>, <<"3">>, <<"0">>}

\* the instant the route handlers' requests read
RequestTimes == {1}

\* the bodies of POST /api/orders
PostOrderBodies ==
  { [userId |-> 1, items |-> <<1>>, totalAmount |-> JsNumber(10)],
    [userId |-> 1, items |-> <<1>>, totalAmount |-> JsNumber(10),
     status |-> "shipped"],
    [userId |-> 1, items |-> <<1>>],
    [userId |-> 1, items |-> <<>>, totalAmount |-> JsNumber(10)],
    [userId |-> 1, items |-> <<1>>, totalAmount |-> JsNumber(0)] }

\* the bodies of PATCH /api/orders/:id
PatchOrderBodies ==
  { [status |-> s] : s \in {"pending", "confirmed", "SHIPPED", "bogus"} }
    \cup { [userId |-> 2] }

\* the bodies of PUT /api/orders/:id
PutOrderBodies ==
  { [userId |-> 1], [userId |-> 2], [status |-> "bogus", totalAmount |-> JsNumber(10)] }

NextOrders ==
  \/ \E body \in PostOrderBodies, now \in RequestTimes : PostOrder(body, now, now)
  \/ \E id \in OrderIds, body \in PutOrderBodies, now \in RequestTimes :
       PutOrder(id, body, now)
  \/ \E id \in OrderIds, body \in PatchOrderBodies, now \in RequestTimes :
       PatchOrder(id, body, now)
  \/ \E id \in OrderIds : DeleteOrder(id)
  \/ \E id \in OrderIds, now \in RequestTimes : CancelOrder(id, now)

SpecOrders == Init /\ [][NextOrders]_vars

\* more bodies of POST /api/orders: totalAmount is true, a negative
\* number, or absent together with userId
PostOrderBodiesMore ==
  { [userId |-> 1, items |-> <<1>>, totalAmount |-> JsBoolean(TRUE)],
    [userId |-> 2, items |-> <<1, 2>>, totalAmount |-> JsNumber(0 - 5)],
    [userId |-> 2, items |-> <<1, 2>>, totalAmount |-> JsNumber(20),
     notes |-> "gift"],
    [items |-> <<1>>] }

\* orders are created and deleted
NextOrderIntake ==
  \/ \E body \in PostOrderBodies \cup PostOrderBodiesMore, now \in RequestTimes :
       PostOrder(body, now, now)
  \/ \E id \in OrderIds : DeleteOrder(id)

SpecOrderIntake == Init /\ [][NextOrderIntake]_vars

--------------------------------------------------------------------------
(* routes/productRoutes.js *)

ProductsFile == "products.json"

\* The prices and stocks of the model are multiples of one half; the number
\* x is the integer 2x, so that the order of numbers is the order of their
\* codes and 0 is 0.
Num(n) == 2 * n
NumAndHalf(n) == 2 * n + 1

\* parseInt(x) of a number: its integer part (truncation towards zero)
parseIntNum(x) ==
  IF x >= 0 THEN Num(x \div 2) ELSE 0 - Num((0 - x) \div 2)

\* POST /api/products
PostProduct(body, now1, now2) ==
  /\ req' = Request("POST /api/products", <<>>, <<body>>)
  /\ IF Missing(<<"name", "price", "category", "stock">>, body) # <<>>
     THEN Reply(400, <<>>)
     ELSE IF NumIsNaN(body.price) \/ body.price < 0
             \/ NumIsNaN(body.stock) \/ body.stock < 0
     THEN Reply(400, <<>>)
     ELSE ReplyCreated(ProductsFile,
            [name        |-> body.name,
             price       |-> parseFloat(body.price),
             category    |-> body.category,
             stock       |-> parseIntNum(body.stock),
             description |-> OrDefault(body, "description", ""),
             image       |-> OrDefault(body, "image", ""),
             inStock     |-> parseIntNum(body.stock) > 0],
            now1, now2)

\* the updateData PUT /api/products/:id builds from the body
PutProductData(body) ==
  LET withStock ==
        IF "stock" \in DOMAIN body
        THEN Spread(body, [inStock |-> parseIntNum(body.stock) > 0,
                           stock   |-> parseIntNum(body.stock)])
        ELSE body
  IN  IF "price" \in DOMAIN withStock
      THEN [withStock EXCEPT !.price = parseFloat(@)]
      ELSE withStock

\* PUT /api/products/:id
PutProduct(id, body, now) ==
  LET product == getById(ProductsFile, id)
  IN  /\ req' = Request("PUT /api/products/:id", id, <<body>>)
      /\ IF ~validateId(id) THEN Reply(400, <<>>)
         ELSE IF product = <<>> THEN Reply(404, <<>>)
         ELSE ReplyUpdated(ProductsFile, id, PutProductData(body), now)

\* PATCH /api/products/:id
PatchProduct(id, body, now) ==
  LET product == getById(ProductsFile, id)
  IN  /\ req' = Request("PATCH /api/products/:id", id, <<body>>)
      /\ IF ~validateId(id) THEN Reply(400, <<>>)
         ELSE IF product = <<>> THEN Reply(404, <<>>)
         ELSE ReplyUpdated(ProductsFile, id, body, now)

\* DELETE /api/products/:id
DeleteProduct(id) ==
  LET product == getById(ProductsFile, id)
  IN  /\ req' = Request("DELETE /api/products/:id", id, <<>>)
      /\ IF ~validateId(id) THEN Reply(400, <<>>)
         ELSE IF product = <<>> THEN Reply(404, <<>>)
         ELSE ReplyDeleted(ProductsFile, id)

ProductIds == {<<"1">>, <<"2">>, <<"3">>, <<"0">>}

\* the bodies of POST /api/products: price 5 and stock 2.5; price 0 and
\* stock 0; a negative price; a negative stock; no stock
PostProductBodies ==
  { [name |-> "Laptop", category |-> "electronics",
     price |-> Num(5), stock |-> NumAndHalf(2)],
    [name |-> "Laptop", category |-> "electronics",
     price |-> Num(0), stock |-> Num(0)],
    [name |-> "Laptop", category |-> "electronics",
     price |-> Num(0 - 1), stock |-> Num(3)],
    [name |-> "Laptop", category |-> "electronics",
     price |-> Num(5), stock |-> Num(0 - 1)],
    [name |-> "Laptop", category |-> "electronics", price |-> Num(5)] }

\* the bodies of PUT /api/products/:id
PutProductBodies == { [stock |-> Num(0)], [price |-> Num(0 - 1)] }

\* the bodies of PATCH /api/products/:id
PatchProductBodies == { [stock |-> Num(0)], [description |-> "new"] }

NextProducts ==
  \/ \E body \in PostProductBodies, now \in RequestTimes : PostProduct(body, now, now)
  \/ \E id \in ProductIds, body \in PutProductBodies, now \in RequestTimes :
       PutProduct(id, body, now)
  \/ \E id \in ProductIds, body \in PatchProductBodies, now \in RequestTimes :
       PatchProduct(id, body, now)
  \/ \E id \in ProductIds : DeleteProduct(id)

SpecProducts == Init /\ [][NextProducts]_vars

--------------------------------------------------------------------------
(* routes/userRoutes.js, with validateEmail, validatePhone and db.search *)

UsersFile == "users.json"

\* String.prototype.toLowerCase on one character of the model's strings
LowerChar(c) ==
  CASE c = "A" -> "a" [] c = "B" -> "b" [] c = "D" -> "d" [] c = "J" -> "j"
    [] OTHER -> c

\* String.prototype.toLowerCase on a string given as a tuple of characters
LowerChars(s) == [i \in 1..Len(s) |-> LowerChar(s[i])]

\* hay.includes(needle)
Includes(hay, needle) ==
  \E i \in 0..(Len(hay) - Len(needle)) : SubSeq(hay, i + 1, i + Len(needle)) = needle

\* emailRegex.test(s) for /^[^\s@]+@[^\s@]+\.[^\s@]+$/ : one @, not first,
\* no white space, and a dot after the @ that is neither next to it nor last
emailRegexTest(s) ==
  \E p \in 2..Len(s) :
    /\ s[p] = "@"
    /\ \A i \in 1..Len(s) : s[i] # " " /\ (i # p => s[i] # "@")
    /\ \E q \in (p + 2)..(Len(s) - 1) : s[q] = "."

\* validateEmail lets the request through
validateEmail(body) ==
  ~("email" \in DOMAIN body /\ body.email # <<>> /\ ~emailRegexTest(body.email))

\* String(phone).replace(/\D/g, '')
DigitsOnly(s) == SelectSeq(s, LAMBDA c : c \in Digits)

\* validatePhone lets the request through: /^\d{10}$/ on the digits
validatePhone(body) ==
  ~("phone" \in DOMAIN body /\ Len(DigitsOnly(body.phone)) # 10)

\* search(filename, field, value): the records whose field, as a lower-case
\* string ('' when the field is undefined), contains value in lower case
searchIn(data, field, value) ==
  SelectSeq(data,
            LAMBDA item :
              Includes(LowerChars(IF field \in DOMAIN item THEN item[field] ELSE <<>>),
                       LowerChars(value)))

search(filename, field, value) == searchIn(readFile(filename), field, value)

\* the object POST /api/users hands to db.create
NewUser(body) ==
  [name     |-> body.name,
   email    |-> body.email,
   phone    |-> body.phone,
   address  |-> OrDefault(body, "address", ""),
   city     |-> OrDefault(body, "city", ""),
   country  |-> OrDefault(body, "country", ""),
   isActive |-> TRUE]

\* POST /api/users
PostUser(body, now1, now2) ==
  /\ req' = Request("POST /api/users", <<>>, <<body>>)
  /\ IF Missing(<<"name", "email", "phone">>, body) # <<>> THEN Reply(400, <<>>)
     ELSE IF ~validateEmail(body) THEN Reply(400, <<>>)
     ELSE IF ~validatePhone(body) THEN Reply(400, <<>>)
     ELSE IF Len(search(UsersFile, "email", body.email)) > 0 THEN Reply(409, <<>>)
     ELSE ReplyCreated(UsersFile, NewUser(body), now1, now2)

\* PUT /api/users/:id
PutUser(id, body, now) ==
  LET user == getById(UsersFile, id)
  IN  /\ req' = Request("PUT /api/users/:id", id, <<body>>)
      /\ IF ~validateId(id) THEN Reply(400, <<>>)
         ELSE IF ~validateEmail(body) THEN Reply(400, <<>>)
         ELSE IF ~validatePhone(body) THEN Reply(400, <<>>)
         ELSE IF user = <<>> THEN Reply(404, <<>>)
         ELSE IF /\ "email" \in DOMAIN body
                 /\ body.email # <<>>
                 /\ body.email # user[1].email
                 /\ Len(search(UsersFile, "email", body.email)) > 0
         THEN Reply(409, <<>>)
         ELSE ReplyUpdated(UsersFile, id, body, now)

\* PATCH /api/users/:id
PatchUser(id, body, now) ==
  LET user == getById(UsersFile, id)
  IN  /\ req' = Request("PATCH /api/users/:id", id, <<body>>)
      /\ IF ~validateId(id) THEN Reply(400, <<>>)
         ELSE IF user = <<>> THEN Reply(404, <<>>)
         ELSE ReplyUpdated(UsersFile, id, body, now)

\* DELETE /api/users/:id
DeleteUser(id) ==
  LET user == getById(UsersFile, id)
  IN  /\ req' = Request("DELETE /api/users/:id", id, <<>>)
      /\ IF ~validateId(id) THEN Reply(400, <<>>)
         ELSE IF user = <<>> THEN Reply(404, <<>>)
         ELSE ReplyDeleted(UsersFile, id)

UserIds == {<<"1">>, <<"2">>, <<"3">>, <<"0">>}

\* a@b.c, d@b.c, A@b.c and a@b, which is no email address
EmailA == <<"a", "@", "b", ".", "c">>
EmailD == <<"d", "@", "b", ".", "c">>
EmailUpperA == <<"A", "@", "b", ".", "c">>
EmailBad == <<"a", "@", "b">>
\* da@b.c, which contains a@b.c
EmailDA == <<"d", "a", "@", "b", ".", "c">>

\* the names John and Dan
NameJohn == <<"J", "o", "h", "n">>
NameDan == <<"D", "a", "n">>

\* 1234567890 and 123-4567
PhoneOk == <<"1", "2", "3", "4", "5", "6", "7", "8", "9", "0">>
PhoneShort == <<"1", "2", "3", "-", "4", "5", "6", "7">>

\* the bodies of POST /api/users
PostUserBodies ==
  { [name |-> NameJohn, email |-> e, phone |-> PhoneOk] :
      e \in {EmailA, EmailD, EmailUpperA, EmailBad, EmailDA} }
    \cup { [name |-> NameJohn, email |-> EmailA, phone |-> PhoneShort],
           [name |-> NameJohn, email |-> EmailA] }

\* the bodies of PUT /api/users/:id
PutUserBodies == { [email |-> EmailA], [email |-> EmailBad], [phone |-> PhoneShort] }

\* the bodies of PATCH /api/users/:id
PatchUserBodies == { [email |-> EmailA], [city |-> "LA"] }

NextUsers ==
  \/ \E body \in PostUserBodies, now \in RequestTimes : PostUser(body, now, now)
  \/ \E id \in UserIds, body \in PutUserBodies, now \in RequestTimes :
       PutUser(id, body, now)
  \/ \E id \in UserIds, body \in PatchUserBodies, now \in RequestTimes :
       PatchUser(id, body, now)
  \/ \E id \in UserIds : DeleteUser(id)

SpecUsers == Init /\ [][NextUsers]_vars

--------------------------------------------------------------------------
(* POST /api/users, one part of its middleware chain at a time.  Express
   runs the chain of one request to its end before it takes the next
   request, so one request is in flight at a time. *)

\* the part named step ran and called next, or went on
Passed(step, next) ==
  pipeline' = [pipeline EXCEPT !.ran = Append(@, step), !.next = next]

\* the part named step ran and sent a response, which ends the request
Answered(step, code, data) ==
  /\ res' = Response(code, data, FALSE)
  /\ pipeline' = [pipeline EXCEPT !.ran = Append(@, step), !.next = "done",
                                  !.sent = @ + 1]

\* a POST /api/users arrives
ReceivePostUser(body) ==
  /\ pipeline.next \in {"idle", "done"}
  /\ Len(readFile(UsersFile)) < MaxId
  /\ req' = Request("POST /api/users", <<>>, <<body>>)
  /\ res' = NoResponse
  /\ pipeline' = [next |-> "validateRequired", ran |-> <<>>, sent |-> 0]
  /\ UNCHANGED <<files, issued, io, servers, browser>>

\* validateRequired(['name', 'email', 'phone'])
RunValidateRequired ==
  /\ pipeline.next = "validateRequired"
  /\ IF Missing(<<"name", "email", "phone">>, req.body[1]) # <<>>
     THEN Answered("validateRequired", 400, <<>>)
     ELSE Passed("validateRequired", "validateEmail") /\ UNCHANGED res
  /\ UNCHANGED <<files, req, issued, io, servers, browser>>

\* a variant of RunValidateEmail that answers 400 and calls next all the same
RunValidateEmail_NoReturn ==
  /\ pipeline.next = "validateEmail"
  /\ IF ~validateEmail(req.body[1])
     THEN /\ res' = Response(400, <<>>, FALSE)
          /\ pipeline' = [pipeline EXCEPT !.ran = Append(@, "validateEmail"),
                                          !.next = "validatePhone",
                                          !.sent = @ + 1]
     ELSE Passed("validateEmail", "validatePhone") /\ UNCHANGED res
  /\ UNCHANGED <<files, req, issued, io, servers, browser>>

\* validateEmail
RunValidateEmail ==
  /\ pipeline.next = "validateEmail"
  /\ IF ~validateEmail(req.body[1])
     THEN Answered("validateEmail", 400, <<>>)
     ELSE Passed("validateEmail", "validatePhone") /\ UNCHANGED res
  /\ UNCHANGED <<files, req, issued, io, servers, browser>>

\* validatePhone
RunValidatePhone ==
  /\ pipeline.next = "validatePhone"
  /\ IF ~validatePhone(req.body[1])
     THEN Answered("validatePhone", 400, <<>>)
     ELSE Passed("validatePhone", "duplicate check") /\ UNCHANGED res
  /\ UNCHANGED <<files, req, issued, io, servers, browser>>

\* the handler's duplicate check: db.search and the 409
RunDuplicateCheck ==
  /\ pipeline.next = "duplicate check"
  /\ IF Len(search(UsersFile, "email", req.body[1].email)) > 0
     THEN Answered("duplicate check", 409, <<>>)
     ELSE Passed("duplicate check", "db.create") /\ UNCHANGED res
  /\ UNCHANGED <<files, req, issued, io, servers, browser>>

\* the handler's db.create and the 201
RunCreate(now1, now2) ==
  LET r == create(UsersFile, NewUser(req.body[1]), now1, now2)
  IN  /\ pipeline.next = "db.create"
      /\ files' = writeFile(UsersFile, r.data)
      /\ issued' = [issued EXCEPT ![UsersFile] = @ \cup {r.record.id}]
      /\ res' = Response(201, <<r.record>>, TRUE)
      /\ pipeline' = [pipeline EXCEPT !.ran = Append(@, "db.create"),
                                      !.next = "done", !.sent = @ + 1]
      /\ UNCHANGED <<req, io, servers, browser>>

NextPipeline ==
  \/ \E body \in PostUserBodies : ReceivePostUser(body)
  \/ RunValidateRequired
  \/ RunValidateEmail
  \/ RunValidatePhone
  \/ RunDuplicateCheck
  \/ \E now \in RequestTimes : RunCreate(now, now)

SpecPipeline == Init /\ [][NextPipeline]_vars

--------------------------------------------------------------------------
(* POST /api/users in server processes that share the db directory.  A
   process is one Node event loop: it runs the middleware chain and the
   handler of one request to the end before it starts on the next request,
   and what may happen between two of its steps is a step of another
   process.  The steps of a handler are cut at its file accesses: the read
   of db.search, the read of db.create and the write of db.create. *)

ServerIds == {1, 2}

\* queue: the requests that arrived and wait their turn; pc: where the
\* handler of the request in hand stands; body: that request's body, as
\* <<body>>; data: the array db.create read; sent: the answers sent so far
IdleServer ==
  [pc |-> "idle", queue |-> <<>>, body |-> <<>>, data |-> <<>>, sent |-> <<>>]

\* the requests server process p has received
RequestsOf(p) ==
  IF p \in DOMAIN servers
  THEN Len(servers[p].queue) + Len(servers[p].sent)
         + (IF servers[p].pc = "idle" THEN 0 ELSE 1)
  ELSE 0

\* one process, or two that share the db directory
InitServers ==
  /\ files = [f \in FILES |-> <<>>]
  /\ req = NoRequest
  /\ res = NoResponse
  /\ issued = [f \in FILES |-> {}]
  /\ pipeline = NoPipeline
  /\ io = NoFault
  /\ servers \in { [p \in 1..n |-> IdleServer] : n \in ServerIds }
  /\ PageClosed

ServerStep(p, new) ==
  /\ servers' = [servers EXCEPT ![p] = new]
  /\ UNCHANGED <<req, res, issued, pipeline, io, browser>>

\* the answer of process p to the request in hand
ServerAnswer(p, body, code, data) ==
  [servers[p] EXCEPT !.pc = "idle", !.body = <<>>, !.data = <<>>,
                     !.sent = Append(@, [body |-> body, code |-> code, data |-> data])]

\* a POST /api/users arrives at process p
ServerReceive(p, body) ==
  /\ p \in DOMAIN servers
  /\ RequestsOf(1) + RequestsOf(2) < MaxId
  /\ ServerStep(p, [servers[p] EXCEPT !.queue = Append(@, body)])
  /\ UNCHANGED files

\* a variant of ServerBegin without the duplicate check
ServerBegin_NoDuplicateCheck(p) ==
  /\ p \in DOMAIN servers
  /\ servers[p].pc = "idle"
  /\ servers[p].queue # <<>>
  /\ LET body == Head(servers[p].queue)
         next == [servers[p] EXCEPT !.queue = Tail(@)]
     IN  ServerStep(p,
           IF \/ Missing(<<"name", "email", "phone">>, body) # <<>>
              \/ ~validateEmail(body)
              \/ ~validatePhone(body)
           THEN [next EXCEPT !.sent = Append(@, [body |-> body, code |-> 400,
                                                 data |-> <<>>])]
           ELSE [next EXCEPT !.pc = "db.create", !.body = <<body>>])
  /\ UNCHANGED files

\* process p starts on its next request: the validators, then the
\* duplicate check with its read of the file
ServerBegin(p) ==
  /\ p \in DOMAIN servers
  /\ servers[p].pc = "idle"
  /\ servers[p].queue # <<>>
  /\ LET body == Head(servers[p].queue)
         next == [servers[p] EXCEPT !.queue = Tail(@)]
     IN  ServerStep(p,
           IF \/ Missing(<<"name", "email", "phone">>, body) # <<>>
              \/ ~validateEmail(body)
              \/ ~validatePhone(body)
           THEN [next EXCEPT !.sent = Append(@, [body |-> body, code |-> 400,
                                                 data |-> <<>>])]
           ELSE IF Len(search(UsersFile, "email", body.email)) > 0
           THEN [next EXCEPT !.sent = Append(@, [body |-> body, code |-> 409,
                                                 data |-> <<>>])]
           ELSE [next EXCEPT !.pc = "db.create", !.body = <<body>>])
  /\ UNCHANGED files

\* db.create reads the file
ServerCreateRead(p) ==
  /\ p \in DOMAIN servers
  /\ servers[p].pc = "db.create"
  /\ ServerStep(p, [servers[p] EXCEPT !.pc = "writeFile",
                                      !.data = readFile(UsersFile)])
  /\ UNCHANGED files

\* db.create writes the array it read, with the new record, and the
\* handler answers 201
ServerCreateWrite(p, now1, now2) ==
  /\ p \in DOMAIN servers
  /\ servers[p].pc = "writeFile"
  /\ LET data   == servers[p].data
         body   == servers[p].body[1]
         record == NewRecord(data, NewUser(body), now1, now2)
     IN  /\ files' = writeFile(UsersFile, Append(data, record))
         /\ ServerStep(p, ServerAnswer(p, body, 201, <<record>>))

\* the bodies of the requests: two emails, and an email that is not one
ServerBodies ==
  { [name |-> NameJohn, email |-> e, phone |-> PhoneOk] :
      e \in {EmailA, EmailD, EmailBad} }

NextServers ==
  \/ \E p \in ServerIds, body \in ServerBodies : ServerReceive(p, body)
  \/ \E p \in ServerIds : ServerBegin(p)
  \/ \E p \in ServerIds : ServerCreateRead(p)
  \/ \E p \in ServerIds, now \in RequestTimes : ServerCreateWrite(p, now, now)

SpecServers == InitServers /\ [][NextServers]_vars

\* what the POST /api/users handler makes of the array data, run on its own
PostUserOn(data, body, now1, now2) ==
  IF \/ Missing(<<"name", "email", "phone">>, body) # <<>>
     \/ ~validateEmail(body)
     \/ ~validatePhone(body)
     \/ Len(searchIn(data, "email", body.email)) > 0
  THEN data
  ELSE Append(data, NewRecord(data, NewUser(body), now1, now2))

\* the file after the handler ran for each of the bodies, one after another
RECURSIVE OneAfterAnother(_, _)
OneAfterAnother(data, bodies) ==
  IF bodies = <<>> THEN data
  ELSE OneAfterAnother(
         PostUserOn(data, Head(bodies),
                    CHOOSE now \in RequestTimes : TRUE,
                    CHOOSE now \in RequestTimes : TRUE),
         Tail(bodies))

--------------------------------------------------------------------------
(* The list endpoints GET /api/users, /api/products and /api/orders, with
   response.paginated *)

\* Math.ceil(a / b), for b # 0
Ceil(a, b) == IF b > 0 THEN 0 - ((0 - a) \div b) ELSE 0 - (a \div (0 - b))

\* the index Array.prototype.slice makes of i on an array of length n: a
\* negative i counts from the end, and the result stays within 0 .. n
SliceIndex(n, i) ==
  IF i < 0 THEN (IF n + i < 0 THEN 0 ELSE n + i)
  ELSE IF i > n THEN n ELSE i

\* a.slice(start, end)
slice(a, start, end) ==
  LET from == SliceIndex(Len(a), start)
      to   == SliceIndex(Len(a), end)
  IN  IF from >= to THEN <<>> ELSE SubSeq(a, from + 1, to)

\* parseInt(req.query[name], 10) || default: NaN and 0 are falsy
QueryInt(query, name, default) ==
  IF name \notin DOMAIN query THEN default
  ELSE LET n == parseInt(query[name])
       IN  IF n = <<>> \/ n[1] = 0 THEN default ELSE n[1]

\* a variant of paginated that rounds the number of pages down
paginated_RoundedDown(data, page, limit, total) ==
  LET totalPages == total \div limit
  IN  [data       |-> data,
       pagination |-> [page       |-> page,
                       limit      |-> limit,
                       total      |-> total,
                       totalPages |-> totalPages,
                       hasNext    |-> page < totalPages,
                       hasPrev    |-> page > 1]]

\* response.paginated(data, page, limit, total)
paginated(data, page, limit, total) ==
  LET totalPages == Ceil(total, limit)
  IN  [data       |-> data,
       pagination |-> [page       |-> page,
                       limit      |-> limit,
                       total      |-> total,
                       totalPages |-> totalPages,
                       hasNext    |-> page < totalPages,
                       hasPrev    |-> page > 1]]

\* a variant of PageOf that starts page p at index p * limit
PageOf_StartAfterPage(list, query) ==
  LET page  == QueryInt(query, "page", 1)
      limit == QueryInt(query, "limit", 10)
      start == page * limit
  IN  paginated(slice(list, start, start + limit), page, limit, Len(list))

\* the pagination block of the three list handlers: page, limit, total,
\* start, slice and response.paginated
PageOf(list, query) ==
  LET page  == QueryInt(query, "page", 1)
      limit == QueryInt(query, "limit", 10)
      start == (page - 1) * limit
  IN  paginated(slice(list, start, start + limit), page, limit, Len(list))

\* query[name] is there and truthy: a query parameter is a string, and only
\* the empty string is falsy
HasQuery(query, name) == name \in DOMAIN query /\ query[name] # <<>>

\* the users GET /api/users keeps: all, or those whose name or email
\* contains the search text, letter case aside
FilteredUsers(query) ==
  IF HasQuery(query, "search")
  THEN SelectSeq(readFile(UsersFile),
         LAMBDA user :
           \/ Includes(LowerChars(user.name), LowerChars(query.search))
           \/ Includes(LowerChars(user.email), LowerChars(query.search)))
  ELSE readFile(UsersFile)

\* GET /api/users
GetUsers(query) ==
  /\ req' = Request("GET /api/users", <<>>, <<query>>)
  /\ Reply(200, PageOf(FilteredUsers(query), query))

\* the orders GET /api/orders keeps: the userId filter, then the status
\* filter (status names are whole strings here; a query names at most one)
FilteredOrders(query) ==
  LET byUser ==
        IF HasQuery(query, "userId")
        THEN SelectSeq(readFile(OrdersFile),
                       LAMBDA o : <<o.userId>> = parseInt(query.userId))
        ELSE readFile(OrdersFile)
  IN  IF "status" \in DOMAIN query /\ query.status # ""
      THEN SelectSeq(byUser,
                     LAMBDA o : toLowerCase(o.status) = toLowerCase(query.status))
      ELSE byUser

\* GET /api/orders
GetOrders(query) ==
  /\ req' = Request("GET /api/orders", <<>>, <<query>>)
  /\ Reply(200, PageOf(FilteredOrders(query), query))

\* parseFloat(s) of a string, as a coded number: an optional sign, digits
\* and an optional fraction; <<>> is NaN.  (A fraction counts as one half
\* when its first digit is 5 and as nothing otherwise.)
parseFloatString(s) ==
  LET u    == Unsigned(s)
      ip   == DigitPrefix(u)
      rest == SubSeq(u, Len(ip) + 1, Len(u))
      fp   == IF rest # <<>> /\ Head(rest) = "." THEN DigitPrefix(Tail(rest)) ELSE <<>>
      abs  == (IF ip = <<>> THEN 0 ELSE Num(DigitsValue(ip)))
                + (IF fp # <<>> /\ Head(fp) = "5" THEN 1 ELSE 0)
  IN  IF ip = <<>> /\ fp = <<>> THEN <<>>
      ELSE IF Head(s) = "-" THEN << 0 - abs >> ELSE << abs >>

\* a variant of InPriceRange whose bounds are exclusive
InPriceRange_Exclusive(price, query) ==
  /\ IF HasQuery(query, "minPrice")
     THEN /\ parseFloatString(query.minPrice) # <<>>
          /\ price > parseFloatString(query.minPrice)[1]
     ELSE price > 0
  /\ IF HasQuery(query, "maxPrice")
     THEN /\ parseFloatString(query.maxPrice) # <<>>
          /\ price < parseFloatString(query.maxPrice)[1]
     ELSE TRUE

\* price >= min && price <= max, with min 0 and max Infinity by default; a
\* comparison with NaN is false
InPriceRange(price, query) ==
  /\ IF HasQuery(query, "minPrice")
     THEN /\ parseFloatString(query.minPrice) # <<>>
          /\ price >= parseFloatString(query.minPrice)[1]
     ELSE price >= 0
  /\ IF HasQuery(query, "maxPrice")
     THEN /\ parseFloatString(query.maxPrice) # <<>>
          /\ price <= parseFloatString(query.maxPrice)[1]
     ELSE TRUE

\* the place of a product name in the order of localeCompare
localeRank(name) ==
  CASE name = "Laptop" -> 1 [] name = "Mouse" -> 2 [] OTHER -> 0

\* Array.prototype.sort with a comparator that is the difference of the
\* keys: ascending keys, and the earlier element first among equal keys
SortByKeys(list, keys) ==
  LET n == Len(list)
      rank(i) == Cardinality({ j \in 1..n : keys[j] < keys[i]
                                             \/ (keys[j] = keys[i] /\ j < i) }) + 1
  IN  [r \in 1..n |-> list[CHOOSE i \in 1..n : rank(i) = r]]

\* the products GET /api/products lists: the category filter, the price
\* filter, then the sort by price or (by default) by name
FilteredProducts(query) ==
  LET byCategory ==
        IF "category" \in DOMAIN query /\ query.category # ""
        THEN SelectSeq(readFile(ProductsFile),
               LAMBDA p : toLowerCase(p.category) = toLowerCase(query.category))
        ELSE readFile(ProductsFile)
      byPrice ==
        IF HasQuery(query, "minPrice") \/ HasQuery(query, "maxPrice")
        THEN SelectSeq(byCategory, LAMBDA p : InPriceRange(p.price, query))
        ELSE byCategory
      sort == IF "sort" \in DOMAIN query THEN query.sort ELSE "name"
  IN  SortByKeys(byPrice,
        [i \in 1..Len(byPrice) |->
           IF sort = "price-asc" THEN byPrice[i].price
           ELSE IF sort = "price-desc" THEN 0 - byPrice[i].price
           ELSE localeRank(byPrice[i].name)])

\* GET /api/products
GetProducts(query) ==
  /\ req' = Request("GET /api/products", <<>>, <<query>>)
  /\ Reply(200, PageOf(FilteredProducts(query), query))

\* the page and limit parameters of a list request
PageQueries ==
  { [page |-> pg, limit |-> lm] : pg \in {<<"1">>, <<"2">>, <<"3">>},
                                  lm \in {<<"1">>, <<"2">>, <<"3">>} }
    \cup { <<>>, [limit |-> <<"1">>], [page |-> <<"2">>] }

\* the filters of GET /api/users, /api/orders and /api/products
UserFilters == { <<>>, [search |-> <<"J">>] }
OrderFilters == { <<>>, [userId |-> <<"1">>], [status |-> "PENDING"] }
ProductFilters ==
  { <<>>, [sort |-> "price-asc"],
    [category |-> "OFFICE", maxPrice |-> <<"2", ".", "5">>],
    [minPrice |-> <<"3">>, sort |-> "price-desc"] }

\* the number of records a listed file holds at most
MaxItems == 3

\* the digit of i, for 0 <= i <= 9
DigitOf(i) == CHOOSE c \in Digits : DigitVal(c) = i

\* The lists are paged over files that earlier POST requests filled: the
\* i-th user, order and product stored, as POST /api/users, /api/orders and
\* /api/products store them (the third order was later shipped)
StoredUser(i) ==
  [id |-> i, createdAt |-> 1, updatedAt |-> 1,
   name     |-> IF i % 2 = 1 THEN NameJohn ELSE NameDan,
   email    |-> <<"a", DigitOf(i), "@", "b", ".", "c">>,
   phone    |-> PhoneOk,
   address  |-> "", city |-> "", country |-> "", isActive |-> TRUE]

StoredOrder(i) ==
  [id |-> i, createdAt |-> 1, updatedAt |-> 1,
   userId          |-> 1 + (i % 2),
   items           |-> <<1>>,
   totalAmount     |-> JsNumber(10),
   status          |-> IF i % 3 = 0 THEN "shipped" ELSE "pending",
   paymentMethod   |-> "credit-card",
   shippingAddress |-> "", notes |-> ""]

StoredProduct(i) ==
  [id |-> i, createdAt |-> 1, updatedAt |-> 1,
   name        |-> IF i % 2 = 1 THEN "Mouse" ELSE "Laptop",
   price       |-> IF i % 2 = 1 THEN Num(i) ELSE Num(10 - i),
   category    |-> IF i % 2 = 1 THEN "office" ELSE "electronics",
   stock       |-> Num(i),
   description |-> "", image |-> "",
   inStock     |-> TRUE]

\* the first n records stored in a file
StoredRecords(filename, n) ==
  CASE filename = UsersFile    -> [i \in 1..n |-> StoredUser(i)]
    [] filename = OrdersFile   -> [i \in 1..n |-> StoredOrder(i)]
    [] filename = ProductsFile -> [i \in 1..n |-> StoredProduct(i)]
    [] OTHER                   -> <<>>

\* the three files hold n records each
InitLists ==
  \E n \in 0..MaxItems :
    /\ files = [f \in FILES |-> StoredRecords(f, n)]
    /\ issued = [f \in FILES |-> IF f = DbFile THEN {} ELSE 1..n]
    /\ pipeline = NoPipeline
    /\ PlainServer
    /\ PageClosed
    /\ req = NoRequest
    /\ res = NoResponse

NextLists ==
  \/ \E q \in PageQueries, f \in UserFilters : GetUsers(Spread(q, f))
  \/ \E q \in PageQueries, f \in OrderFilters : GetOrders(Spread(q, f))
  \/ \E q \in PageQueries, f \in ProductFilters : GetProducts(Spread(q, f))

SpecLists == InitLists /\ [][NextLists]_vars

\* page and limit parameters out of the usual range: zero and negative
OutOfRangeQueries ==
  { [page |-> pg, limit |-> lm] :
      pg \in {<<"0">>, <<"-", "1">>, <<"1">>, <<"2">>},
      lm \in {<<"0">>, <<"-", "1">>, <<"-", "2">>, <<"2">>} }
    \cup { [page |-> <<"0">>], [page |-> <<"-", "1">>] }

NextPaging ==
  \/ \E q \in OutOfRangeQueries : GetUsers(q)
  \/ \E q \in OutOfRangeQueries : GetOrders(q)
  \/ \E q \in OutOfRangeQueries, f \in ProductFilters : GetProducts(Spread(q, f))

SpecPaging == InitLists /\ [][NextPaging]_vars

--------------------------------------------------------------------------
(* GET /api/products/stock/low *)

\* the products db.filter keeps: (parseInt(product.stock, 10) || 0) is at
\* most the threshold
LowStockProducts(threshold) ==
  SelectSeq(readFile(ProductsFile),
            LAMBDA product : parseIntNum(product.stock) <= Num(threshold))

\* GET /api/products/stock/low
GetLowStock(query) ==
  /\ req' = Request("GET /api/products/stock/low", <<>>, <<query>>)
  /\ Reply(200, LowStockProducts(QueryInt(query, "threshold", 5)))

\* the queries of GET /api/products/stock/low: no threshold, 0, 3 and 7
LowStockQueries ==
  { <<>>, [threshold |-> <<"0">>], [threshold |-> <<"3">>],
    [threshold |-> <<"7">>] }

\* the bodies of the POST requests that stock the products: 0, 3, 6 and 8
LowStockBodies ==
  { [name |-> "Mouse", category |-> "office", price |-> Num(2), stock |-> Num(n)] :
      n \in {0, 3, 6, 8} }

NextLowStock ==
  \/ \E body \in LowStockBodies, now \in RequestTimes : PostProduct(body, now, now)
  \/ \E id \in ProductIds : DeleteProduct(id)
  \/ \E query \in LowStockQueries : GetLowStock(query)

SpecLowStock == Init /\ [][NextLowStock]_vars

--------------------------------------------------------------------------
(* The routes on one record: GET, PUT, PATCH and DELETE /:id of the three
   routers *)

\* GET /:id of a router: validateId, db.getById, 404 or the record
GetRecord(op, filename, id) ==
  LET record == getById(filename, id)
  IN  /\ req' = Request(op, id, <<>>)
      /\ IF ~validateId(id) THEN Reply(400, <<>>)
         ELSE IF record = <<>> THEN Reply(404, <<>>)
         ELSE Reply(200, record)

\* GET /api/users/:id
GetUser(id) == GetRecord("GET /api/users/:id", UsersFile, id)

\* GET /api/products/:id
GetProduct(id) == GetRecord("GET /api/products/:id", ProductsFile, id)

\* GET /api/orders/:id
GetOrder(id) == GetRecord("GET /api/orders/:id", OrdersFile, id)

\* the id parameters: 1, 2, 9 (an id no record has), 0, -1, a and 1.5
RecordIds ==
  { <<"1">>, <<"2">>, <<"9">>, <<"0">>, <<"-", "1">>, <<"a">>, <<"1", ".", "5">> }

\* the bodies of PUT and PATCH on one record
RecordUserPutBodies == { [city |-> "LA"], [email |-> EmailBad] }
RecordUserPatchBodies == { [country |-> "US"] }
RecordOrderPutBodies == { [notes |-> "gift"] }
RecordOrderPatchBodies == { [status |-> "confirmed"] }
RecordProductPutBodies == { [stock |-> Num(0)] }
RecordProductPatchBodies == { [description |-> "new"] }

\* one of the three files holds n records that earlier POST requests
\* stored, the other files are empty
InitRecords ==
  \E n \in 1..MaxItems, filled \in {UsersFile, OrdersFile, ProductsFile} :
    /\ files = [f \in FILES |-> IF f = filled THEN StoredRecords(f, n) ELSE <<>>]
    /\ issued = [f \in FILES |-> IF f = filled THEN 1..n ELSE {}]
    /\ pipeline = NoPipeline
    /\ PlainServer
    /\ PageClosed
    /\ req = NoRequest
    /\ res = NoResponse

NextRecords ==
  \/ \E id \in RecordIds : GetUser(id)
  \/ \E id \in RecordIds, body \in RecordUserPutBodies, now \in RequestTimes :
       PutUser(id, body, now)
  \/ \E id \in RecordIds, body \in RecordUserPatchBodies, now \in RequestTimes :
       PatchUser(id, body, now)
  \/ \E id \in RecordIds : DeleteUser(id)
  \/ \E id \in RecordIds : GetProduct(id)
  \/ \E id \in RecordIds, body \in RecordProductPutBodies, now \in RequestTimes :
       PutProduct(id, body, now)
  \/ \E id \in RecordIds, body \in RecordProductPatchBodies, now \in RequestTimes :
       PatchProduct(id, body, now)
  \/ \E id \in RecordIds : DeleteProduct(id)
  \/ \E id \in RecordIds : GetOrder(id)
  \/ \E id \in RecordIds, body \in RecordOrderPutBodies, now \in RequestTimes :
       PutOrder(id, body, now)
  \/ \E id \in RecordIds, body \in RecordOrderPatchBodies, now \in RequestTimes :
       PatchOrder(id, body, now)
  \/ \E id \in RecordIds : DeleteOrder(id)

SpecRecords == InitRecords /\ [][NextRecords]_vars

--------------------------------------------------------------------------
(* File reads and writes that fail: readFile and writeFile catch what fs
   throws, readFile then returns [] and writeFile returns false *)

\* from now on fs reads fail (or not) and fs writes fail (or not): the file
\* cannot be opened or parsed, the disk is full or read-only
SetFault(readFails, writeFails) ==
  /\ io' = [readFails |-> readFails, writeFails |-> writeFails]
  /\ UNCHANGED <<files, req, res, issued, pipeline, servers, browser>>

\* the database layer called directly, with faults
NextDbFaults ==
  \/ \E newRecord \in DbNewRecords, now \in RequestTimes :
       DbCreate(newRecord, now, now)
  \/ \E id \in DbIds, updateData \in DbUpdateData, now \in RequestTimes :
       DbUpdate(id, updateData, now)
  \/ \E id \in DbIds : DbDelete(id)
  \/ \E readFails \in BOOLEAN : SetFault(readFails, FALSE)

SpecDbFaults == Init /\ [][NextDbFaults]_vars

\* the product routes, with faults
NextProductFaults ==
  \/ \E body \in PostProductBodies, now \in RequestTimes : PostProduct(body, now, now)
  \/ \E id \in ProductIds, body \in PutProductBodies, now \in RequestTimes :
       PutProduct(id, body, now)
  \/ \E id \in ProductIds, body \in PatchProductBodies, now \in RequestTimes :
       PatchProduct(id, body, now)
  \/ \E id \in ProductIds : DeleteProduct(id)
  \/ \E id \in ProductIds : GetProduct(id)
  \/ \E writeFails \in BOOLEAN : SetFault(FALSE, writeFails)

SpecProductFaults == Init /\ [][NextProductFaults]_vars

--------------------------------------------------------------------------
(* card/src/components/Card.jsx: the Card component.  React renders a
   component, runs the effects of that render in the order of their
   declaration, and renders again when an effect or a handler changed the
   state; the effects of a render see the state as that render saw it.  The
   image state (imgLoaded, imgError) is left out: no handler or effect of
   the model reads it. *)

\* JSON.stringify(map) of an object whose values are all true: its keys, in
\* the order of insertion
stringify(map) == [parses |-> TRUE, keys |-> map]

\* a text JSON.parse throws on
Unparsable == [parses |-> FALSE, keys |-> <<>>]

\* map[id] is truthy; map[id] = true; delete map[id]
HasKey(map, id) == \E i \in 1..Len(map) : map[i] = id
SetKey(map, id) == IF HasKey(map, id) THEN map ELSE Append(map, id)
DeleteKey(map, id) == SelectSeq(map, LAMBDA k : k # id)

\* a step of the card id, which leaves localStorage to the caller
CardStep(id, new, kind, key) ==
  /\ cards[id].mounted \/ kind = "mount"
  /\ cards' = [cards EXCEPT ![id] = new]
  /\ event' = [kind |-> kind, card |-> id, key |-> key]
  /\ UNCHANGED <<server, app, shuffle>>

\* the first render of a Card: useState(false) twice, and both effects due;
\* found records whether localStorage holds the entry of the card
Mounted(id) ==
  [mounted |-> TRUE, flipped |-> FALSE, liked |-> FALSE, rendered |-> FALSE,
   effects |-> <<"load", "save">>,
   found   |-> localStorage # <<>> /\ localStorage[1].parses
                 /\ HasKey(localStorage[1].keys, id),
   touched |-> FALSE]

\* the card is put on the page
Mount(id) ==
  /\ ~cards[id].mounted
  /\ CardStep(id, Mounted(id), "mount", "")
  /\ UNCHANGED localStorage

\* the card is taken off the page: its state is gone
Unmount(id) ==
  /\ CardStep(id, Unmounted, "unmount", "")
  /\ UNCHANGED localStorage

\* the page is loaded again: every card is put on it anew
Reload ==
  /\ \E id \in CardIds : cards[id].mounted
  /\ cards' = [id \in CardIds |-> Mounted(id)]
  /\ event' = [kind |-> "reload", card |-> "", key |-> ""]
  /\ UNCHANGED <<server, app, shuffle, localStorage>>

\* a variant of RunLoadEffect that leaves liked as it is
RunLoadEffect_NoSetLiked(id) ==
  /\ cards[id].effects # <<>> /\ Head(cards[id].effects) = "load"
  /\ CardStep(id, [cards[id] EXCEPT !.effects = Tail(@)], "effect", "load")
  /\ UNCHANGED localStorage

\* the first effect: liked becomes whether the stored map has the id; a
\* throw of JSON.parse is caught and changes nothing
RunLoadEffect(id) ==
  /\ cards[id].effects # <<>> /\ Head(cards[id].effects) = "load"
  /\ LET c == [cards[id] EXCEPT !.effects = Tail(@)]
     IN  CardStep(id,
           IF localStorage = <<>> THEN [c EXCEPT !.liked = FALSE]
           ELSE IF ~localStorage[1].parses THEN c
           ELSE [c EXCEPT !.liked = HasKey(localStorage[1].keys, id)],
           "effect", "load")
  /\ UNCHANGED localStorage

\* the second effect: the stored map, with the id set or deleted as the
\* render saw liked, is stored again; a throw is caught
RunSaveEffect(id) ==
  /\ cards[id].effects # <<>> /\ Head(cards[id].effects) = "save"
  /\ CardStep(id, [cards[id] EXCEPT !.effects = Tail(@)], "effect", "save")
  /\ IF localStorage # <<>> /\ ~localStorage[1].parses
     THEN UNCHANGED localStorage
     ELSE LET map == IF localStorage = <<>> THEN <<>> ELSE localStorage[1].keys
          IN  localStorage' =
                << stringify(IF cards[id].rendered THEN SetKey(map, id)
                             ELSE DeleteKey(map, id)) >>

\* liked changed since the last render: the card is rendered again and the
\* effect that depends on liked is due
Render(id) ==
  /\ cards[id].effects = <<>>
  /\ cards[id].liked # cards[id].rendered
  /\ CardStep(id, [cards[id] EXCEPT !.rendered = cards[id].liked,
                                    !.effects = <<"save">>],
              "render", "")
  /\ UNCHANGED localStorage

\* the card has no effect to run and no render to make; React gets there
\* before it hands the next event to a handler
Settled(id) ==
  /\ cards[id].mounted
  /\ cards[id].effects = <<>>
  /\ cards[id].liked = cards[id].rendered

\* onClick of the card: setFlipped(p => !p)
ClickCard(id) ==
  /\ Settled(id)
  /\ CardStep(id, [cards[id] EXCEPT !.flipped = ~@], "click card", "")
  /\ UNCHANGED localStorage

\* handleKeyDown
KeyDown(id, key) ==
  /\ Settled(id)
  /\ CardStep(id,
       IF key = "Enter" \/ key = " "
       THEN [cards[id] EXCEPT !.flipped = ~@] ELSE cards[id],
       "keydown", key)
  /\ UNCHANGED localStorage

\* onClick of the Like button: stopPropagation, setLiked(v => !v)
ClickLike(id) ==
  /\ Settled(id)
  /\ CardStep(id, [cards[id] EXCEPT !.liked = ~@, !.touched = TRUE],
              "click Like", "")
  /\ UNCHANGED localStorage

\* a variant of ClickView that toggles flipped
ClickView_Toggle(id) ==
  /\ Settled(id)
  /\ CardStep(id, [cards[id] EXCEPT !.flipped = ~@], "click View", "")
  /\ UNCHANGED localStorage

\* onClick of the View button: stopPropagation, setFlipped(true)
ClickView(id) ==
  /\ Settled(id)
  /\ CardStep(id, [cards[id] EXCEPT !.flipped = TRUE], "click View", "")
  /\ UNCHANGED localStorage

\* onClick of the Close button: stopPropagation, setFlipped(false)
ClickClose(id) ==
  /\ Settled(id)
  /\ CardStep(id, [cards[id] EXCEPT !.flipped = FALSE], "click Close", "")
  /\ UNCHANGED localStorage

\* the keys pressed on a card
Keys == {"Enter", " ", "Tab", "a"}

\* the page is opened with nothing stored under LIKE_KEY, or with a text
\* there that is not JSON
InitCard ==
  /\ files = [f \in FILES |-> <<>>]
  /\ req = NoRequest
  /\ res = NoResponse
  /\ issued = [f \in FILES |-> {}]
  /\ pipeline = NoPipeline
  /\ PlainServer
  /\ cards = [id \in CardIds |-> Unmounted]
  /\ localStorage \in {<<>>, <<Unparsable>>}
  /\ event = NoEvent
  /\ app = NoApp
  /\ shuffle = NoShuffle

NextCard ==
  \/ \E id \in CardIds : Mount(id)
  \/ \E id \in CardIds : Unmount(id)
  \/ Reload
  \/ \E id \in CardIds : RunLoadEffect(id)
  \/ \E id \in CardIds : RunSaveEffect(id)
  \/ \E id \in CardIds : Render(id)
  \/ \E id \in CardIds : ClickCard(id)
  \/ \E id \in CardIds, key \in Keys : KeyDown(id, key)
  \/ \E id \in CardIds : ClickLike(id)
  \/ \E id \in CardIds : ClickView(id)
  \/ \E id \in CardIds : ClickClose(id)

SpecCard == InitCard /\ [][NextCard]_vars

--------------------------------------------------------------------------
(* The App component: the search input and its debounce effect.  Time is
   counted in units of 100 ms. *)

\* the delay of setTimeout(..., 300)
Delay == 3

\* the most changes of searchTerm in one run
MaxChanges == 4

\* what the user may have in the search input
Terms == {"", "a", "ab"}

AppStep(new, kind) ==
  /\ app' = new
  /\ event' = [kind |-> kind, card |-> "", key |-> ""]
  /\ UNCHANGED <<server, cards, localStorage, shuffle>>

\* after the first render of App its effect has started a timer for ''
InitApp ==
  /\ files = [f \in FILES |-> <<>>]
  /\ req = NoRequest
  /\ res = NoResponse
  /\ issued = [f \in FILES |-> {}]
  /\ pipeline = NoPipeline
  /\ PlainServer
  /\ cards = [id \in CardIds |-> Unmounted]
  /\ localStorage = <<>>
  /\ event = NoEvent
  /\ app = [NoApp EXCEPT !.timer = << [term |-> "", left |-> Delay] >>]
  /\ shuffle = NoShuffle

\* a variant of ChangeSearchTerm whose effect leaves a pending timer alone
ChangeSearchTerm_NoCleanup(term) ==
  /\ term # app.searchTerm
  /\ app.changes < MaxChanges
  /\ AppStep([app EXCEPT !.searchTerm = term,
                         !.timer = IF @ = <<>>
                                   THEN << [term |-> term, left |-> Delay] >>
                                   ELSE @,
                         !.quiet = 0,
                         !.changes = @ + 1],
             "change")

\* onChange of the input sets searchTerm; App renders again, the cleanup of
\* the effect clears the pending timer and the effect starts a timer that
\* will set query to the new searchTerm
ChangeSearchTerm(term) ==
  /\ term # app.searchTerm
  /\ app.changes < MaxChanges
  /\ AppStep([app EXCEPT !.searchTerm = term,
                         !.timer = << [term |-> term, left |-> Delay] >>,
                         !.quiet = 0,
                         !.changes = @ + 1],
             "change")

\* 100 ms pass; a timer that is due stays due until it runs
Tick ==
  /\ app' = [app EXCEPT !.quiet = IF @ < Delay THEN @ + 1 ELSE @,
                        !.timer = IF @ # <<>> /\ @[1].left > 0
                                  THEN << [@[1] EXCEPT !.left = @ - 1] >>
                                  ELSE @]
  /\ event' = [kind |-> "tick", card |-> "", key |-> ""]
  /\ UNCHANGED <<server, cards, localStorage, shuffle>>

\* the timer is due and its callback runs: setQuery(searchTerm), with the
\* searchTerm of the render that started it
Timeout ==
  /\ app.timer # <<>>
  /\ app.timer[1].left = 0
  /\ AppStep([app EXCEPT !.query = app.timer[1].term, !.timer = <<>>],
             "timeout")

NextApp ==
  \/ \E term \in Terms : ChangeSearchTerm(term)
  \/ Tick
  \/ Timeout

\* time passes, and a timer that is due runs
SpecApp == InitApp /\ [][NextApp]_vars /\ WF_vars(Tick) /\ WF_vars(Timeout)

--------------------------------------------------------------------------
(* shuffleArray(arr): the loop, one iteration a step.  Arrays are indexed
   from 0 in the code and from 1 here. *)

\* the longest array shuffled
MaxLen == 3

\* the items of the arrays
Items == {"ann", "bob", "cy"}

\* the arrays shuffleArray is called with
Arrays == UNION { [1..n -> Items] : n \in 0..MaxLen }

ShuffleStep(new) ==
  /\ shuffle' = new
  /\ UNCHANGED <<server, cards, localStorage, event, app>>

\* const a = arr.slice(); let i = a.length - 1
CallShuffle(arr) ==
  /\ shuffle.pc \in {"idle", "returned"}
  /\ ShuffleStep([pc |-> "loop", arr |-> arr, a |-> arr, i |-> Len(arr) - 1])

\* a variant of SwapStep that copies a[j] to a[i] and leaves a[j]
SwapStep_Copy(j) ==
  /\ shuffle.pc = "loop"
  /\ shuffle.i > 0
  /\ j \in 0..shuffle.i
  /\ LET a == shuffle.a
         i == shuffle.i
     IN  ShuffleStep([shuffle EXCEPT
           !.a = [k \in 1..Len(a) |-> IF k = i + 1 THEN a[j + 1] ELSE a[k]],
           !.i = i - 1])

\* one iteration: j = Math.floor(Math.random() * (i + 1)), any of 0 .. i;
\* [a[i], a[j]] = [a[j], a[i]]; i--
SwapStep(j) ==
  /\ shuffle.pc = "loop"
  /\ shuffle.i > 0
  /\ j \in 0..shuffle.i
  /\ LET a == shuffle.a
         i == shuffle.i
     IN  ShuffleStep([shuffle EXCEPT
           !.a = [k \in 1..Len(a) |-> IF k = i + 1 THEN a[j + 1]
                                      ELSE IF k = j + 1 THEN a[i + 1]
                                      ELSE a[k]],
           !.i = i - 1])

\* the loop is over: return a
ReturnShuffle ==
  /\ shuffle.pc = "loop"
  /\ shuffle.i <= 0
  /\ ShuffleStep([shuffle EXCEPT !.pc = "returned"])

NextShuffle ==
  \/ \E arr \in Arrays : CallShuffle(arr)
  \/ \E j \in 0..(MaxLen - 1) : SwapStep(j)
  \/ ReturnShuffle

SpecShuffle == Init /\ [][NextShuffle]_vars

--------------------------------------------------------------------------
(* Claims about the database layer, checked under SpecDb *)

DbData == files[DbFile]

\* C6: starting from an empty file, after any sequence of create, update and
\* deleteRecord calls all stored records have pairwise distinct positive
\* ids, and the record a create returns has id 1 in an empty file and
\* max(existing ids) + 1 otherwise.
C6_IdsUniqueAndIncreasing ==
  /\ \A i, j \in 1..Len(DbData) : i # j => DbData[i].id # DbData[j].id
  /\ \A i \in 1..Len(DbData) : DbData[i].id > 0
  /\ req.op = "create" =>
       LET before == SubSeq(DbData, 1, Len(DbData) - 1)
       IN  /\ DbData[Len(DbData)] = res.data[1]
           /\ \A i \in 1..Len(before) : before[i].id < res.data[1].id
           /\ \/ before = <<>> /\ res.data[1].id = 1
              \/ \E i \in 1..Len(before) : res.data[1].id = before[i].id + 1

\* C7: once create has returned id n for a file, no later create on that
\* file returns n, whatever deletes happen in between (here for creates
\* whose newRecord carries no id of its own).
C7_DeletedIdsNotReused ==
  [][(req'.op = "create" /\ "id" \notin DOMAIN req'.body[1])
       => res'.data[1].id \notin issued[DbFile]]_vars

\* what C8 says of the step in which update(filename, id, updateData) runs
UpdateMerges(id, updateData) ==
  LET data == files[DbFile]
      new  == files'[DbFile]
      hits == {i \in 1..Len(data) : IdIs(data[i], id)}
  IN  IF hits = {}
      THEN res'.data = <<>> /\ ~res'.wrote /\ files' = files
      ELSE LET i == CHOOSE h \in hits : \A g \in hits : h <= g
           IN  /\ Len(new) = Len(data)
               /\ \A j \in 1..Len(data) : j # i => new[j] = data[j]
               /\ \A f \in FILES \ {DbFile} : files'[f] = files[f]
               /\ DOMAIN new[i] = DOMAIN data[i] \cup DOMAIN updateData
               /\ new[i].id = data[i].id
               /\ new[i].createdAt = data[i].createdAt
               /\ \A k \in DOMAIN data[i] \ (DOMAIN updateData \cup {"updatedAt"}) :
                    new[i][k] = data[i][k]
               /\ \A k \in DOMAIN updateData \ {"id", "createdAt", "updatedAt"} :
                    new[i][k] = updateData[k]
               /\ res'.data = <<new[i]>>

NumberDenoted(id) ==
  IF id # <<>> /\ \A i \in 1..Len(id) : id[i] \in Digits
  THEN <<DigitsValue(id)>> ELSE <<>>

\* what is left of the array a, in order, once the positions in gone are
\* taken out
Without(a, gone) ==
  LET kept == {i \in 1..Len(a) : i \notin gone}
      RECURSIVE Pick(_)
      Pick(i) == IF i > Len(a) THEN <<>>
                 ELSE IF i \in kept THEN <<a[i]>> \o Pick(i + 1)
                 ELSE Pick(i + 1)
  IN  Pick(1)

--------------------------------------------------------------------------
(* Claims about the order routes, checked under SpecOrders *)

\* the steps of the lifecycle
LifecycleSteps ==
  { <<"pending", "confirmed">>, <<"confirmed", "shipped">>, <<"shipped", "delivered">> }

\* the pairs <<i, j>> such that record j of the orders file after the step
\* is record i before it
SameOrder ==
  { p \in (1..Len(files[OrdersFile])) \X (1..Len(files'[OrdersFile])) :
      files[OrdersFile][p[1]].id = files'[OrdersFile][p[2]].id }

\* C2: each change of a stored order's status is the next lifecycle step
\* (pending -> confirmed -> shipped -> delivered) or a change to cancelled.
C2_StatusFollowsLifecycle ==
  [][\A p \in SameOrder :
       LET old == files[OrdersFile][p[1]].status
           new == files'[OrdersFile][p[2]].status
       IN  old # new => (<<old, new>> \in LifecycleSteps \/ new = "cancelled")]_vars

\* C3: the status of every stored order is one of pending, confirmed,
\* shipped, delivered, cancelled.
C3_StatusIsValid ==
  \A i \in 1..Len(files[OrdersFile]) :
    files[OrdersFile][i].status
      \in {"pending", "confirmed", "shipped", "delivered", "cancelled"}

\* what C4 says of the step in which POST /api/orders/:id/cancel is handled
CancelsOnlyPending(id) ==
  LET orders  == files[OrdersFile]
      hits    == {i \in 1..Len(orders) : parseInt(id) = <<orders[i].id>>}
      pending == {i \in hits : orders[i].status = "pending"}
  IN  /\ res'.code = 200 <=> pending # {}
      /\ res'.code = 200 =>
           /\ Len(files'[OrdersFile]) = Len(orders)
           /\ \A i \in pending :
                /\ files'[OrdersFile][i].status = "cancelled"
                /\ res'.data = <<files'[OrdersFile][i]>>
                /\ DOMAIN files'[OrdersFile][i] = DOMAIN orders[i]
                /\ \A k \in DOMAIN orders[i] \ {"status", "updatedAt"} :
                     files'[OrdersFile][i][k] = orders[i][k]
           /\ \A i \in (1..Len(orders)) \ pending : files'[OrdersFile][i] = orders[i]
      /\ (validateId(id) /\ hits = {}) => res'.code = 404
      /\ (hits # {} /\ pending = {}) => res'.code = 400
      /\ res'.code # 200 => (res'.code \in {400, 404} /\ ~res'.wrote /\ files' = files)
      /\ \A f \in FILES \ {OrdersFile} : files'[f] = files[f]

\* C4: the cancel request answers 200 and sets the status to cancelled
\* exactly when the order exists and is pending (so it does for the order a
\* POST /api/orders has just created); it answers 404 when no order has the
\* id and 400 when the order is not pending, and then the files are as
\* before.  (An id that validateId rejects is answered 400 by the
\* middleware.)
C4_CancelOnlyPending ==
  [][req'.op = "POST /api/orders/:id/cancel" =>
       /\ CancelsOnlyPending(req'.id)
       /\ (req.op = "POST /api/orders" /\ res.code = 201
            /\ parseInt(req'.id) = <<res.data[1].id>>) => res'.code = 200]_vars

\* C4: a pending order has been cancelled with 200 while the other order of
\* the file, which is not pending, stays as it was
C4_Witness ==
  /\ req.op = "POST /api/orders/:id/cancel"
  /\ res.code = 200
  /\ Len(files[OrdersFile]) = 2
  /\ \E i, j \in 1..2 :
       /\ parseInt(req.id) = <<files[OrdersFile][i].id>>
       /\ files[OrdersFile][i].status = "cancelled"
       /\ res.data = <<files[OrdersFile][i]>>
       /\ files[OrdersFile][j].status = "confirmed"

\* C5: the userId of a stored order never changes; a PUT whose body carries
\* a userId other than the stored one is answered 400 and changes nothing,
\* and a PUT whose userId is the stored one is accepted.
C5_UserIdNeverChanges ==
  [][/\ \A p \in SameOrder :
          files'[OrdersFile][p[2]].userId = files[OrdersFile][p[1]].userId
     /\ (req'.op = "PUT /api/orders/:id" /\ "userId" \in DOMAIN req'.body[1]) =>
          \A i \in 1..Len(files[OrdersFile]) :
            parseInt(req'.id) = <<files[OrdersFile][i].id>> =>
              IF req'.body[1].userId = files[OrdersFile][i].userId
              THEN res'.code = 200
              ELSE res'.code = 400 /\ files' = files]_vars

--------------------------------------------------------------------------
(* Claims about the product routes, checked under SpecProducts *)

\* C9: every stored product has inStock = true exactly when its stock is
\* greater than 0.
C9_InStockTracksStock ==
  \A i \in 1..Len(files[ProductsFile]) :
    files[ProductsFile][i].inStock <=> files[ProductsFile][i].stock > 0

\* the number coded by x is an integer
IsInteger(x) == x % 2 = 0

\* C10: POST /api/products stores a product only when price > 0 and stock
\* is an integer >= 0, and otherwise answers 400 and stores nothing; and
\* every stored product has price > 0 and stock >= 0.
C10_ProductNumbersValidated ==
  [][/\ req'.op = "POST /api/products" =>
          IF /\ {"price", "stock"} \subseteq DOMAIN req'.body[1]
             /\ req'.body[1].price > 0
             /\ req'.body[1].stock >= 0
             /\ IsInteger(req'.body[1].stock)
          THEN TRUE
          ELSE res'.code = 400 /\ files' = files
     /\ \A i \in 1..Len(files'[ProductsFile]) :
          /\ files'[ProductsFile][i].price > 0
          /\ files'[ProductsFile][i].stock >= 0]_vars

--------------------------------------------------------------------------
(* Claims about the user routes, checked under SpecUsers *)

\* C1: no two stored users have the same email.
C1_EmailsUnique ==
  \A i, j \in 1..Len(files[UsersFile]) :
    i # j => files[UsersFile][i].email # files[UsersFile][j].email

\* body passes validateRequired, validateEmail and validatePhone of POST /api/users
PassesUserValidators(body) ==
  /\ Missing(<<"name", "email", "phone">>, body) = <<>>
  /\ validateEmail(body)
  /\ validatePhone(body)

\* a stored user has this email, compared without regard to case
EmailStored(email) ==
  \E i \in 1..Len(files[UsersFile]) :
    LowerChars(files[UsersFile][i].email) = LowerChars(email)

\* C11: POST /api/users with a body that passes the three validators
\* answers 409 and stores nothing if a stored user already has that email,
\* and in every other case creates the user with isActive = true and
\* answers 201.
C11_PostUserConflictOrCreated ==
  [][(req'.op = "POST /api/users" /\ PassesUserValidators(req'.body[1])) =>
       IF EmailStored(req'.body[1].email)
       THEN res'.code = 409 /\ files' = files
       ELSE /\ res'.code = 201
            /\ res'.data[1].isActive = TRUE
            /\ res'.data[1].email = req'.body[1].email
            /\ files'[UsersFile] = Append(files[UsersFile], res'.data[1])]_vars

--------------------------------------------------------------------------
(* Claims about POST /api/orders, checked under SpecOrderIntake *)

\* the body has userId, items and totalAmount, items is a non-empty array
\* and totalAmount is a number greater than 0
OrderBodyValid(body) ==
  /\ {"userId", "items", "totalAmount"} \subseteq DOMAIN body
  /\ Len(body.items) > 0
  /\ body.totalAmount.type = "number"
  /\ body.totalAmount.num > 0

\* C12: POST /api/orders stores an order only when userId, items and
\* totalAmount are present, items is a non-empty array and totalAmount is a
\* number greater than 0; in every other case it answers 400 and the orders
\* file is unchanged.
C12_PostOrderValidated ==
  [][(req'.op = "POST /api/orders" /\ ~OrderBodyValid(req'.body[1])) =>
       (res'.code = 400 /\ files' = files)]_vars

\* C13: every order created by POST /api/orders has initial status
\* 'pending', whatever fields (a status field included) the body carries:
\* the order answered with 201 and the order added to the file are pending.
C13_NewOrderIsPending ==
  [][(req'.op = "POST /api/orders" /\ res'.code = 201) =>
       /\ res'.data[1].status = "pending"
       /\ Len(files'[OrdersFile]) = Len(files[OrdersFile]) + 1
       /\ files'[OrdersFile][Len(files'[OrdersFile])] = res'.data[1]]_vars

\* an order was just created from a body that carries status 'shipped'
C13_Witness ==
  /\ req.op = "POST /api/orders"
  /\ "status" \in DOMAIN req.body[1]
  /\ req.body[1].status = "shipped"
  /\ res.code = 201
  /\ files[OrdersFile][Len(files[OrdersFile])].status = "pending"

--------------------------------------------------------------------------
(* Claims about the list endpoints, checked under SpecLists *)

\* the filtered list a list request pages through
ListOf(r) ==
  CASE r.op = "GET /api/users"    -> FilteredUsers(r.body[1])
    [] r.op = "GET /api/orders"   -> FilteredOrders(r.body[1])
    [] r.op = "GET /api/products" -> FilteredProducts(r.body[1])

IsListRequest(r) ==
  r.op \in {"GET /api/users", "GET /api/orders", "GET /api/products"}

\* the number p >= 0 as a query parameter: its decimal digits
RECURSIVE PageParam(_)
PageParam(p) ==
  IF p < 10 THEN << DigitOf(p) >>
  ELSE PageParam(p \div 10) \o << DigitOf(p % 10) >>

\* the pages 1 .. p of list, each of limit items, one after the other
RECURSIVE PagesUpTo(_, _, _)
PagesUpTo(list, limit, p) ==
  IF p = 0 THEN <<>>
  ELSE PagesUpTo(list, limit, p - 1)
         \o PageOf(list, [page |-> PageParam(p), limit |-> PageParam(limit)]).data

\* the items at the indices (p-1)*limit .. p*limit-1 (counted from 0) that
\* list has
ItemsOfPage(list, p, limit) ==
  [k \in 1..(IF Len(list) >= p * limit THEN limit
              ELSE IF Len(list) > (p - 1) * limit THEN Len(list) - (p - 1) * limit
              ELSE 0) |-> list[(p - 1) * limit + k]]

\* C14: for a list request with page >= 1 and limit >= 1, page p holds
\* exactly the items at the indices (p-1)*limit .. p*limit-1 of the
\* filtered list; the pages 1 .. totalPages, one after the other, are the
\* filtered list (so they are disjoint), and the pages beyond are empty.
C14_PagesPartitionList ==
  [][IsListRequest(req') =>
       LET list  == ListOf(req')
           page  == QueryInt(req'.body[1], "page", 1)
           limit == QueryInt(req'.body[1], "limit", 10)
           last  == res'.data.pagination.totalPages
       IN  (page >= 1 /\ limit >= 1) =>
             /\ res'.code = 200
             /\ res'.data.data = ItemsOfPage(list, page, limit)
             /\ PagesUpTo(list, limit, last) = list
             /\ \A p \in (last + 1)..(last + 2) :
                  PageOf(list, [page |-> PageParam(p),
                                limit |-> PageParam(limit)]).data = <<>>]_vars

\* page 2 of a list of three items, with two items a page, was answered
C14_Witness ==
  /\ IsListRequest(req)
  /\ res.data.pagination.page = 2
  /\ res.data.pagination.limit = 2
  /\ res.data.pagination.total = 3
  /\ Len(res.data.data) = 1

\* C15: for page >= 1, limit >= 1 and total >= 0, paginated gives
\* totalPages = ceil(total / limit), hasPrev = (page > 1) and
\* hasNext = (page < totalPages), and hasNext is true exactly when the
\* filtered list has an item after the last index of the page.
C15_PaginationMetadata ==
  [][IsListRequest(req') =>
       LET total == Len(ListOf(req'))
           page  == QueryInt(req'.body[1], "page", 1)
           limit == QueryInt(req'.body[1], "limit", 10)
           pg    == res'.data.pagination
       IN  (page >= 1 /\ limit >= 1) =>
             /\ pg.page = page /\ pg.limit = limit /\ pg.total = total
             /\ pg.totalPages * limit >= total
             /\ (pg.totalPages - 1) * limit < total
             /\ pg.totalPages >= 0
             /\ pg.hasPrev = (page > 1)
             /\ pg.hasNext = (page < pg.totalPages)
             /\ pg.hasNext = (page * limit < total)]_vars

\* the first of two pages was answered
C15_Witness ==
  /\ IsListRequest(req)
  /\ res.data.pagination.hasNext
  /\ ~res.data.pagination.hasPrev
  /\ res.data.pagination.totalPages = 2

\* the positions of the stored products a products query asks for: the
\* category is the one named, letter case aside, and the price is at least
\* minPrice (0 when there is none) and at most maxPrice (when there is one)
ProductsAskedFor(query) ==
  LET stored == files[ProductsFile]
  IN  { i \in 1..Len(stored) :
          /\ "category" \in DOMAIN query
               => toLowerCase(stored[i].category) = toLowerCase(query.category)
          /\ stored[i].price >= (IF "minPrice" \in DOMAIN query
                                 THEN parseFloatString(query.minPrice)[1] ELSE 0)
          /\ "maxPrice" \in DOMAIN query
               => stored[i].price <= parseFloatString(query.maxPrice)[1] }

\* the order the sort parameter asks for, between two products
InSortOrder(query, a, b) ==
  IF "sort" \in DOMAIN query /\ query.sort = "price-asc" THEN a.price <= b.price
  ELSE IF "sort" \in DOMAIN query /\ query.sort = "price-desc" THEN a.price >= b.price
  ELSE localeRank(a.name) <= localeRank(b.name)

C29_OutOfRangePagingIsHarmless ==
  IsListRequest(req) =>
    LET query == req.body[1]
        list  == ListOf(req)
        items == res.data.data
        limit == IF "limit" \in DOMAIN query THEN parseInt(query.limit)[1] ELSE 0
        most  == IF limit = 0 THEN 10 ELSE IF limit > 0 THEN limit ELSE 0
    IN  /\ Len(items) <= most
        /\ \E start \in 0..Len(list) :
             /\ start + Len(items) <= Len(list)
             /\ items = SubSeq(list, start + 1, start + Len(items))
        /\ res.data.pagination.totalPages >= 0

--------------------------------------------------------------------------
(* Claims about the routes on one record, checked under SpecRecords *)

\* the file a request on one record is about
FileOfRequest(r) ==
  CASE r.op \in {"GET /api/users/:id", "PUT /api/users/:id",
                 "PATCH /api/users/:id", "DELETE /api/users/:id"} -> UsersFile
    [] r.op \in {"GET /api/products/:id", "PUT /api/products/:id",
                 "PATCH /api/products/:id", "DELETE /api/products/:id"} -> ProductsFile
    [] r.op \in {"GET /api/orders/:id", "PUT /api/orders/:id",
                 "PATCH /api/orders/:id", "DELETE /api/orders/:id"} -> OrdersFile

IsRecordRequest(r) ==
  r.op \in {"GET /api/users/:id", "PUT /api/users/:id",
            "PATCH /api/users/:id", "DELETE /api/users/:id",
            "GET /api/products/:id", "PUT /api/products/:id",
            "PATCH /api/products/:id", "DELETE /api/products/:id",
            "GET /api/orders/:id", "PUT /api/orders/:id",
            "PATCH /api/orders/:id", "DELETE /api/orders/:id"}

\* id is the decimal numeral of a positive integer
PositiveIntegerId(id) ==
  /\ id # <<>>
  /\ \A i \in 1..Len(id) : id[i] \in Digits
  /\ DigitsValue(id) > 0

\* r is a request on one record, with a valid id that no stored record has
OnMissingRecord(r) ==
  /\ IsRecordRequest(r)
  /\ PositiveIntegerId(r.id)
  /\ \A i \in 1..Len(files[FileOfRequest(r)]) :
       files[FileOfRequest(r)][i].id # DigitsValue(r.id)

\* the request before was a DELETE answered 200, and this one is a GET of
\* the same router and the same id
GetsTheDeleted ==
  /\ res.code = 200
  /\ req'.id = req.id
  /\ \/ req.op = "DELETE /api/users/:id" /\ req'.op = "GET /api/users/:id"
     \/ req.op = "DELETE /api/products/:id" /\ req'.op = "GET /api/products/:id"
     \/ req.op = "DELETE /api/orders/:id" /\ req'.op = "GET /api/orders/:id"

C16_OnlyPositiveIntegerIds ==
  [][(IsRecordRequest(req') /\ ~PositiveIntegerId(req'.id)) =>
       (res'.code = 400 /\ files' = files /\ ~res'.wrote)]_vars

--------------------------------------------------------------------------
(* Claims about validateRequired, checked under SpecRequired *)

\* field is missing from body: undefined, null, or a string of white space
\* only
FieldIsMissing(body, field) ==
  \/ field \notin DOMAIN body
  \/ body[field].type \in {"undefined", "null"}
  \/ /\ body[field].type = "string"
     /\ \A i \in 1..Len(body[field].chars) : body[field].chars[i] \in Whitespace

\* C17: validateRequired(fields) calls next exactly when no field is
\* missing, a field being missing iff its value is undefined, null or a
\* string that is empty after trimming (0 and false count as present);
\* otherwise it answers 400 naming exactly the missing fields, in the order
\* of the required list.
C17_ValidateRequired ==
  req.op = "validateRequired" =>
    LET body    == req.body[1]
        missing == SelectSeq(req.fields, LAMBDA field : FieldIsMissing(body, field))
    IN  /\ (res = NoResponse) <=> (missing = <<>>)
        /\ missing # <<>> => (res.code = 400 /\ res.data = missing)
        /\ \A field \in DOMAIN body :
             body[field] \in {JsNumber(0), JsBoolean(FALSE)} =>
               \A i \in 1..Len(res.data) : res.data[i] # field

\* name is blank, email is 0 and phone is absent: 400 names phone and name
C17_Witness ==
  /\ req.op = "validateRequired"
  /\ req.fields = <<"phone", "name">>
  /\ DOMAIN req.body[1] = {"name", "email"}
  /\ req.body[1].name = JsString(<<" ">>)
  /\ req.body[1].email = JsNumber(0)
  /\ res.code = 400
  /\ res.data = <<"phone", "name">>

--------------------------------------------------------------------------
(* Claims about the middleware chain of POST /api/users, checked under
   SpecPipeline *)

\* the parts of POST /api/users, in the order of the route
UserPipeline ==
  <<"validateRequired", "validateEmail", "validatePhone", "duplicate check",
    "db.create">>

\* the part named step ran for the request in flight
HasRun(p, step) == \E i \in 1..Len(p.ran) : p.ran[i] = step

\* C18: for POST /api/users the parts run in the order validateRequired,
\* validateEmail, validatePhone, duplicate check, db.create; a part runs
\* only if all earlier parts passed; one response is sent per request, and
\* none after it; and users.json is written only by db.create, which is
\* reached only when every earlier part passed.
C18_PipelineStopsOnFirstError ==
  [][LET p    == pipeline'
         body == req'.body[1]
     IN  /\ p.ran = SubSeq(UserPipeline, 1, Len(p.ran))
         /\ HasRun(p, "validateEmail") =>
              Missing(<<"name", "email", "phone">>, body) = <<>>
         /\ HasRun(p, "validatePhone") => validateEmail(body)
         /\ HasRun(p, "duplicate check") => validatePhone(body)
         /\ (HasRun(p, "db.create") /\ ~HasRun(pipeline, "db.create")) =>
              /\ Len(search(UsersFile, "email", body.email)) = 0
              /\ files'[UsersFile] # files[UsersFile]
              /\ res'.code = 201
         /\ files' # files =>
              (HasRun(p, "db.create") /\ ~HasRun(pipeline, "db.create"))
         /\ p.sent <= 1
         /\ p.sent = 1 <=> p.next = "done"
         /\ p.sent = 0 => res' = NoResponse
         /\ pipeline.next = "done" => (p.next = "validateRequired" /\ p.sent = 0)]_vars

\* a request went through all five parts and was answered 201
C18_Witness ==
  /\ pipeline.ran = UserPipeline
  /\ pipeline.next = "done"
  /\ pipeline.sent = 1
  /\ res.code = 201

--------------------------------------------------------------------------
(* Claims about GET /api/products/stock/low, checked under SpecLowStock *)

\* C20: GET /api/products/stock/low?threshold=N returns exactly the stored
\* products whose stock is <= N, for every non-negative integer N in the
\* query, and exactly the products with stock <= 5 when the query has no
\* threshold.
C20_LowStockIsAtMostThreshold ==
  req.op = "GET /api/products/stock/low" =>
    LET query == req.body[1]
        N     == IF "threshold" \in DOMAIN query
                 THEN DigitsValue(query.threshold) ELSE 5
    IN  /\ res.code = 200
        /\ res.data = SelectSeq(files[ProductsFile], LAMBDA p : p.stock <= Num(N))

--------------------------------------------------------------------------
(* Claims about failing reads and writes, checked under SpecProductFaults
   and SpecDbFaults *)

\* C26: whenever a POST, PUT, PATCH or DELETE request is answered with 200
\* or 201, the file reflects the change, also when the file write fails: the
\* record answered is in the file, and after a delete no record has the id.
C26_SuccessMeansStored ==
  (/\ req.op \in {"POST /api/products", "PUT /api/products/:id",
                  "PATCH /api/products/:id", "DELETE /api/products/:id"}
   /\ res.code \in {200, 201})
    => LET stored == files[ProductsFile]
       IN  IF req.op = "DELETE /api/products/:id"
           THEN \A i \in 1..Len(stored) : <<stored[i].id>> # parseInt(req.id)
           ELSE \E i \in 1..Len(stored) : <<stored[i]>> = res.data

\* C27: if readFile fails while the file holds records, no create, update
\* or deleteRecord call writes a file without them (but for the record
\* deleteRecord is to remove), and create (called without an id of its own)
\* returns no id that a record of the file has.
C27_FailedReadLosesNothing ==
  [][(io.readFails /\ io' = io /\ req'.op \in {"create", "update", "deleteRecord"})
       => LET stored == files[DbFile]
              after  == files'[DbFile]
          IN  /\ \A i \in 1..Len(stored) :
                   \/ \E j \in 1..Len(after) : after[j].id = stored[i].id
                   \/ req'.op = "deleteRecord" /\ <<stored[i].id>> = parseInt(req'.id)
              /\ (req'.op = "create" /\ "id" \notin DOMAIN req'.body[1])
                   => \A i \in 1..Len(stored) : stored[i].id # res'.data[1].id]_vars

--------------------------------------------------------------------------
(* Claims about server processes, checked under SpecServers *)

\* the answers sent so far, as <<process, position>>
Answers ==
  { a \in (DOMAIN servers) \X (1..(MaxId + 1)) : a[2] <= Len(servers[a[1]].sent) }

AnswerAt(a) == servers[a[1]].sent[a[2]]

Created == { a \in Answers : AnswerAt(a).code = 201 }

\* no handler is under way
AllIdle == \A p \in DOMAIN servers : servers[p].pc = "idle"

\* the ways to put the answered requests one after another
Orders ==
  { o \in [1..Cardinality(Answers) -> Answers] :
      \A i, j \in DOMAIN o : i # j => o[i] # o[j] }

\* what C28 promises of the requests answered so far
NoLostUpdates ==
  LET users == files[UsersFile]
  IN  /\ \A i, j \in 1..Len(users) : i # j => users[i].id # users[j].id
      /\ \A a \in Created : \E i \in 1..Len(users) : <<users[i]>> = AnswerAt(a).data
      /\ \A a, b \in Created :
           a # b => /\ AnswerAt(a).data[1].id # AnswerAt(b).data[1].id
                    /\ AnswerAt(a).body.email # AnswerAt(b).body.email
      /\ AllIdle =>
           \E o \in Orders :
             users = OneAfterAnother(<<>>, [i \in DOMAIN o |-> AnswerAt(o[i]).body])

\* C28: with one server process, whatever the order in which requests
\* arrive and are taken up, the file is what the handlers give when run one
\* after another in some order: no two creates get the same id, no created
\* record is lost, and no two POST /api/users with one email are both
\* answered 201.  (With two processes on one db directory this fails: see
\* SharedDirectoryLosesUpdate.)
C28_NoLostUpdatesInOneProcess ==
  DOMAIN servers = {1} => NoLostUpdates

\* C28: one process has answered two requests that waited in its queue
\* together, both with 201
C28_Witness ==
  /\ DOMAIN servers = {1}
  /\ AllIdle
  /\ Cardinality(Created) = 2
  /\ Len(files[UsersFile]) = 2

\* two processes on one db directory have both answered 201 and the file
\* holds one record: a state that SpecServers reaches
SharedDirectoryLosesUpdate ==
  /\ DOMAIN servers = {1, 2}
  /\ AllIdle
  /\ Cardinality(Created) = 2
  /\ Len(files[UsersFile]) = 1

--------------------------------------------------------------------------
(* Claims about the Card component, checked under SpecCard *)

\* localStorage holds the entry of the card id under LIKE_KEY
LikeStored(id) ==
  /\ localStorage # <<>>
  /\ localStorage[1].parses
  /\ \E i \in 1..Len(localStorage[1].keys) : localStorage[1].keys[i] = id

\* C21: if the entry of a card was in localStorage when the card was
\* mounted again, then once its effects and the renders they ask for are
\* done, and as long as Like is not clicked, liked is true and localStorage
\* still holds the entry; and a step of one card never removes the entry of
\* another card.
C21_LikesPersistAcrossReloads ==
  [][\A id \in CardIds :
       /\ (Settled(id) /\ cards[id].found /\ ~cards[id].touched)'
            => (cards[id].liked /\ LikeStored(id))'
       /\ (LikeStored(id) /\ ~LikeStored(id)') => event'.card = id]_vars

\* C21: a card is back, liked, after a reload that found its entry, and
\* the entry of the other card, which is not mounted, is still stored
C21_Witness ==
  \E id, other \in CardIds :
    /\ id # other
    /\ Settled(id) /\ cards[id].found /\ ~cards[id].touched
    /\ cards[id].liked /\ LikeStored(id)
    /\ event = [kind |-> "effect", card |-> id, key |-> "save"]
    /\ LikeStored(other)

\* C25: a click on the card and a press of Enter or Space toggle flipped,
\* any other key leaves it as it is, View sets it to true and Close to
\* false, a click on Like toggles liked and leaves flipped as it is, and
\* none of the others changes liked.
C25_FlipStateMachine ==
  [][\A id \in CardIds :
       event'.card = id =>
         LET old == cards[id]
             new == cards'[id]
             kind == event'.kind
         IN  /\ kind = "click card" =>
                  new.flipped = ~old.flipped /\ new.liked = old.liked
             /\ (kind = "keydown" /\ event'.key \in {"Enter", " "}) =>
                  new.flipped = ~old.flipped /\ new.liked = old.liked
             /\ (kind = "keydown" /\ event'.key \notin {"Enter", " "}) =>
                  new.flipped = old.flipped /\ new.liked = old.liked
             /\ kind = "click View" => new.flipped /\ new.liked = old.liked
             /\ kind = "click Close" => ~new.flipped /\ new.liked = old.liked
             /\ kind = "click Like" =>
                  new.liked = ~old.liked /\ new.flipped = old.flipped]_vars

\* C25: View was clicked on a card that was flipped already and is liked
C25_Witness ==
  \E id \in CardIds :
    /\ event = [kind |-> "click View", card |-> id, key |-> ""]
    /\ cards[id].flipped
    /\ cards[id].liked
    /\ cards[id].touched

--------------------------------------------------------------------------
(* Claims about the debounce effect of App, checked under SpecApp *)

\* C22: each change of searchTerm cancels the pending timer and starts a
\* new one of 300 ms; query is only ever set to the value searchTerm has
\* held for at least 300 ms without a change; and once searchTerm stops
\* changing (it changes at most MaxChanges times), query is searchTerm in
\* the end.
C22_SearchIsDebounced ==
  /\ [][/\ app'.searchTerm # app.searchTerm
             => app'.timer = << [term |-> app'.searchTerm, left |-> Delay] >>
        /\ event'.kind = "timeout"
             => /\ app'.query = app.searchTerm
                /\ app'.searchTerm = app.searchTerm
                /\ app.quiet >= Delay
        /\ app'.query # app.query => event'.kind = "timeout"]_vars
  /\ <>[](app.query = app.searchTerm)

\* C22: the timer of the last of several changes has set query, which
\* skipped the values in between
C22_Witness ==
  /\ event.kind = "timeout"
  /\ app.changes >= 2
  /\ app.query = app.searchTerm
  /\ app.query # ""

--------------------------------------------------------------------------
(* Claims about shuffleArray, checked under SpecShuffle *)

\* how often x is in the array a
Count(a, x) == Cardinality({ k \in 1..Len(a) : a[k] = x })

\* C30: whatever indices the random numbers give, shuffleArray(arr) returns
\* an array of the length of arr with the same elements, each as often as
\* in arr, and arr is as it was when the call began.
C30_ShuffleIsPermutation ==
  [][/\ shuffle'.pc = "returned"
          => /\ Len(shuffle'.a) = Len(shuffle'.arr)
             /\ \A x \in Items : Count(shuffle'.a, x) = Count(shuffle'.arr, x)
     /\ shuffle.pc = "loop" => shuffle'.arr = shuffle.arr]_vars

\* C30: a call returned an array of three items, one of them twice, in
\* another order than that of arr
C30_Witness ==
  /\ shuffle.pc = "returned"
  /\ Len(shuffle.arr) = 3
  /\ shuffle.a # shuffle.arr
  /\ \E x \in Items : Count(shuffle.arr, x) = 2

====
